---- MODULE Spec2Model ----
(***************************************************************************)
(* A model of the Synapse message bus (synapse/bus.py, synapse/models.py,  *)
(* synapse/storage.py).                                                    *)
(*                                                                         *)
(* The bus runs on one asyncio event loop.  A synchronous method runs to   *)
(* completion; the coroutine publish() runs without interruption until it  *)
(* awaits the coroutine returned by an asynchronous delivery hook, and     *)
(* other tasks run only while it is suspended there.  The variable cur     *)
(* holds the publish task that currently owns the event loop (0: none);    *)
(* every step of another task is guarded by cur = 0.                       *)
(***************************************************************************)
EXTENDS Integers, Sequences, FiniteSets, TLC

VARIABLES
    channels,         \* SynapseBus._channels: name -> Channel
    subscriptions,    \* SynapseBus._subscriptions: name -> list of Subscription
    message_history,  \* SynapseBus._message_history
    inbox,            \* SynapseBus._inbox: agent -> list of messages
    stored,           \* rows of the MessageStore's messages table
    now,              \* the wall clock read by datetime.now()
    pub,              \* the publish() calls: one record per task slot
    cur,              \* the publish task that owns the event loop, 0 if none
    last,             \* the last synchronous call: its name, its arguments, and the value it
                      \* returned: a count (ret), an object (obj) or a list of messages (list)
    dlog,             \* per agent, the ids appended to its inbox since it was last cleared
    used,             \* how many calls of each kind have been made (bounds the model)
    probe,            \* the input and result of a Subscription.matches evaluation
    agents,           \* AgentRegistry._agents: name -> AgentInfo
    sweeper           \* the task running _heartbeat_loop: where it is, and until when it sleeps

vars == <<channels, subscriptions, message_history, inbox, stored, now, pub, cur,
          last, dlog, used, probe, agents, sweeper>>

-----------------------------------------------------------------------------
(* Bounds of the model *)

\* publish calls, and other calls (or clock ticks), in a run of Spec
MaxPublish == 2
MaxCalls == 3
\* publish calls in a run of SpecCap: more than the history holds
CapPublish == 1002
\* subscribe calls before the first publish in a run of SpecCap
CapCalls == 2
\* publish calls, and other calls (or clock ticks), in a run of SpecRead
ReadPublish == 2
ReadCalls == 3
\* calls (or waits) in a run of SpecRegistry
RegistryCalls == 5
\* the resolution of the clock: now counts ticks, this many to the second
TicksPerSecond == 2
\* calls (or waits) in a run of SpecStore
StoreCalls == 6
\* to_dict, from_dict and subscribe calls, and publish requests, in a run of SpecWire
WireCalls == 2
WirePublish == 1
\* calls (or waits), and publishes, in a run of SpecServer
ServerCalls == 5
ServerPublish == 1

-----------------------------------------------------------------------------
(* models.py: the enumerations and the records *)

CRITICAL == 0
HIGH == 1
NORMAL == 2
LOW == 3
BACKGROUND == 4
Priority == {CRITICAL, HIGH, NORMAL, LOW, BACKGROUND}

MessageType == {"alert", "data", "command", "query", "response", "event"}

\* Python's None, for an optional string argument or field
None == "None"

\* the default channels created by SynapseBus.__init__, with their descriptions
DefaultChannels ==
    <<"#alerts", "#market-data", "#learning", "#commands", "#heartbeat", "#system">>

DefaultDescription(name) == "default:" \o name

\* SynapseMessage(...): timestamp defaults to datetime.now(), ttl to 0, reply_to to None
SynapseMessage(id, channel, type, priority, t) ==
    [id |-> id, channel |-> channel, sender |-> "t", payload |-> "{}",
     type |-> type, priority |-> priority, timestamp |-> t, ttl |-> 0,
     reply_to |-> None]

NoMessage == SynapseMessage(0, None, "event", NORMAL, 0)

\* Channel(name, description): created_at defaults to now, message_count to 0
Channel(name, description, t) ==
    [name |-> name, description |-> description, created_at |-> t, message_count |-> 0]

-----------------------------------------------------------------------------
(* bus.py: Subscription *)

\* the delivery hooks a subscriber may pass as callback
Callbacks == {"none", "sync_ok", "sync_raise", "async_ok", "async_raise", "async_hang"}

IsAsync(cb) == cb \in {"async_ok", "async_raise", "async_hang"}

Subscription(agent_name, channel, callback, priority_min, type_filter) ==
    [agent_name |-> agent_name, channel |-> channel, callback |-> callback,
     priority_min |-> priority_min, type_filter |-> type_filter]

\* Matches with the priority test the wrong way round
MatchesInverted(sub, msg) ==
    IF msg.priority < sub.priority_min THEN FALSE
    ELSE IF sub.type_filter # None /\ msg.type # sub.type_filter THEN FALSE
    ELSE TRUE

Matches(sub, msg) ==
    IF msg.priority > sub.priority_min THEN FALSE
    ELSE IF sub.type_filter # None /\ msg.type # sub.type_filter THEN FALSE
    ELSE TRUE

-----------------------------------------------------------------------------
(* Python list helpers *)

\* s[-n:] for a list s and an integer n
PySuffix(s, n) ==
    IF n = 0 THEN s
    ELSE IF n > 0 THEN (IF n >= Len(s) THEN s ELSE SubSeq(s, Len(s) - n + 1, Len(s)))
    ELSE SubSeq(s, (-n) + 1, Len(s))

RECURSIVE SumOver(_, _)
SumOver(f, S) ==
    IF S = {} THEN 0
    ELSE LET x == CHOOSE y \in S : TRUE IN f[x] + SumOver(f, S \ {x})

-----------------------------------------------------------------------------
(* Input domains *)

Agents == {"agent-a", "agent-b"}

\* "#test" is not a default channel: it exists only once created
ChannelNames == {DefaultChannels[i] : i \in DOMAIN DefaultChannels} \cup {"#test"}

\* the tasks that may be inside publish() at the same time
Tasks == {1, 2}

-----------------------------------------------------------------------------
(* bus.py: SynapseBus, the state changes of its methods *)

max_history == 1000
max_inbox == 100

\* WithChannel replacing a channel that exists
WithChannelReplaced(chs, name, description, t) ==
    [n \in DOMAIN chs \cup {name} |->
        IF n = name THEN Channel(name, description, t) ELSE chs[n]]

\* create_channel: the channel map afterwards
WithChannel(chs, name, description, t) ==
    IF name \notin DOMAIN chs
    THEN chs @@ (name :> Channel(name, description, t))
    ELSE chs

\* AutoCreated giving the new channel its name as description
AutoCreatedDescribed(chs, name, t) == WithChannel(chs, name, name, t)

\* self.create_channel(channel) in subscribe and publish: description defaults to ""
AutoCreated(chs, name, t) == WithChannel(chs, name, "", t)

\* WithSubscription merging an entry equal to one the list holds
WithSubscriptionMerged(subs, sub) ==
    IF \E i \in DOMAIN subs : subs[i] = sub THEN subs ELSE Append(subs, sub)

\* self._subscriptions[channel].append(sub)
WithSubscription(subs, sub) == Append(subs, sub)

\* Counted without the increment
CountedNot(chs, name) == chs

\* Counted counting down
CountedDown(chs, name) == [chs EXCEPT ![name].message_count = @ - 1]

\* self._channels[msg.channel].message_count += 1
Counted(chs, name) == [chs EXCEPT ![name].message_count = @ + 1]

\* AppendHistory keeping the first _max_history entries
AppendHistoryHead(history, msg) ==
    LET h == Append(history, msg)
    IN  IF Len(h) > max_history THEN SubSeq(h, 1, max_history) ELSE h

\* self._message_history.append(msg), then the trim to the last _max_history
AppendHistory(history, msg) ==
    LET h == Append(history, msg)
    IN  IF Len(h) > max_history THEN PySuffix(h, max_history) ELSE h

\* AppendInbox trimming one entry too late
AppendInboxLate(box, msg) ==
    LET b == Append(box, msg)
    IN  IF Len(b) > max_inbox + 1 THEN PySuffix(b, max_inbox) ELSE b

\* inbox.append(msg), then the trim to the last _max_inbox
AppendInbox(box, msg) ==
    LET b == Append(box, msg)
    IN  IF Len(b) > max_inbox THEN PySuffix(b, max_inbox) ELSE b

\* what calling a hook does: "none" when there is no hook
HookOutcome(callback) ==
    CASE callback \in {"sync_ok", "async_ok"} -> "ok"
      [] callback \in {"sync_raise", "async_raise"} -> "raise"
      [] OTHER -> "none"

\* AfterCallback counting only the hooks that did not raise
AfterCallbackSuccesses(delivered, outcome) ==
    [delivered |-> IF outcome = "raise" THEN delivered ELSE delivered + 1, raised |-> FALSE]

\* the try/except around the hook and the delivered += 1 after it: the new
\* count, and whether an exception leaves publish
AfterCallback(delivered, outcome) ==
    [delivered |-> delivered + 1, raised |-> FALSE]

\* Remaining dropping the subscriptions of every agent
RemainingNone(subs, agent_name) == <<>>

\* [s for s in self._subscriptions[ch] if s.agent_name != agent_name]
Remaining(subs, agent_name) ==
    LET Keep(s) == s.agent_name # agent_name IN SelectSeq(subs, Keep)

\* Cleared emptying every inbox
ClearedAll(boxes, agent_name) == [a \in DOMAIN boxes |-> <<>>]

\* self._inbox[agent_name] = []
Cleared(boxes, agent_name) == [boxes EXCEPT ![agent_name] = <<>>]

-----------------------------------------------------------------------------
(* models.py, registry.py: AgentInfo and the state changes of AgentRegistry *)

AgentStatus == {"online", "offline", "busy"}

\* AgentRegistry(heartbeat_timeout=120), as server.py constructs it: seconds
heartbeat_timeout == 120

\* an optional argument is <<>> when absent (None) and <<v>> when given
OrElse(arg, default) == IF arg = <<>> THEN default ELSE arg[1]

\* AgentInfo(name, ...): status defaults to online, both instants to now
AgentInfo(name, capabilities, channels_, metadata, t) ==
    [name |-> name, capabilities |-> capabilities, channels |-> channels_,
     status |-> "online", registered_at |-> t, last_heartbeat |-> t,
     metadata |-> metadata]

\* Registered replacing the record of a known name by a new one
RegisteredFresh(agts, name, capabilities, channels_, metadata, t) ==
    [n \in DOMAIN agts \cup {name} |->
        IF n = name
        THEN AgentInfo(name, OrElse(capabilities, <<>>), OrElse(channels_, <<>>),
                       OrElse(metadata, {}), t)
        ELSE agts[n]]

\* register: the agents afterwards
Registered(agts, name, capabilities, channels_, metadata, t) ==
    IF name \in DOMAIN agts
    THEN [agts EXCEPT ![name] =
             [@ EXCEPT !.status = "online",
                       !.last_heartbeat = t,
                       !.capabilities = OrElse(capabilities, @),
                       !.channels = OrElse(channels_, @),
                       !.metadata = OrElse(metadata, @)]]
    ELSE agts @@ (name :> AgentInfo(name, OrElse(capabilities, <<>>),
                                    OrElse(channels_, <<>>), OrElse(metadata, {}), t))

\* Unregistered deleting the record
UnregisteredDeleting(agts, name) == [n \in DOMAIN agts \ {name} |-> agts[n]]

\* unregister: the agents afterwards
Unregistered(agts, name) ==
    IF name \in DOMAIN agts THEN [agts EXCEPT ![name].status = "offline"] ELSE agts

\* Heartbeat ignoring a name the registry does not know
HeartbeatKnownOnly(agts, name, t) ==
    IF name \in DOMAIN agts
    THEN [agts EXCEPT ![name].last_heartbeat = t, ![name].status = "online"]
    ELSE agts

\* heartbeat: the agents afterwards
Heartbeat(agts, name, t) ==
    IF name \in DOMAIN agts
    THEN [agts EXCEPT ![name].last_heartbeat = t, ![name].status = "online"]
    ELSE Registered(agts, name, <<>>, <<>>, <<>>, t)

\* list_agents(status): the names of the agents listed; status is <<>> for None
ListAgents(agts, status) ==
    {n \in DOMAIN agts : status = <<>> \/ agts[n].status = status[1]}

\* find_by_capability listing the agents of any status
FindByCapabilityAnyStatus(agts, capability) ==
    {n \in DOMAIN agts : \E i \in DOMAIN agts[n].capabilities :
                             agts[n].capabilities[i] = capability}

\* find_by_capability(capability): the names of the agents listed
FindByCapability(agts, capability) ==
    {n \in DOMAIN agts :
        /\ \E i \in DOMAIN agts[n].capabilities : agts[n].capabilities[i] = capability
        /\ agts[n].status = "online"}

\* get(name): <<>> for None, else the record in a 1-tuple
Get(agts, name) == IF name \in DOMAIN agts THEN <<agts[name]>> ELSE <<>>

\* TimedOut taking the agents whose heartbeat is exactly the timeout old too
TimedOutAtTimeout(agts, t) ==
    {n \in DOMAIN agts :
        /\ agts[n].status = "online"
        /\ t - agts[n].last_heartbeat >= heartbeat_timeout * TicksPerSecond}

\* TimedOut without the test of the status
TimedOutAnyStatus(agts, t) ==
    {n \in DOMAIN agts :
        t - agts[n].last_heartbeat > heartbeat_timeout * TicksPerSecond}

\* check_timeouts at the instant t: the names it returns; delta is
\* (now - last_heartbeat).total_seconds(), a fraction of seconds
TimedOut(agts, t) ==
    {n \in DOMAIN agts :
        /\ agts[n].status = "online"
        /\ t - agts[n].last_heartbeat > heartbeat_timeout * TicksPerSecond}

\* check_timeouts at the instant t: the agents afterwards
SweptAgents(agts, t) ==
    [n \in DOMAIN agts |->
        IF n \in TimedOut(agts, t) THEN [agts[n] EXCEPT !.status = "offline"] ELSE agts[n]]

-----------------------------------------------------------------------------
(* storage.py: the rows of the messages table *)

\* n in decimal, width characters wide, as character codes ("0" is 48)
Digits(n, width) == [i \in 1..width |-> 48 + ((n \div 10^(width - i)) % 10)]

\* the number written by the width characters of text from position i
RECURSIVE Number(_, _, _)
Number(text, i, width) ==
    IF width = 0 THEN 0
    ELSE Number(text, i, width - 1) * 10 + (text[i + width - 1] - 48)

\* IsoFormat to the whole second
IsoFormatSeconds(t) ==
    LET s == t \div TicksPerSecond
    IN  Digits(s \div 3600, 2) \o <<58>> \o Digits((s \div 60) % 60, 2) \o <<58>>
            \o Digits(s % 60, 2) \o <<43>>

\* datetime.isoformat() of the instant t (in ticks) of the day, in UTC:
\* "HH:MM:SS", then ".ffffff" unless the microseconds are 0, then the "+" of the
\* offset; the date before and the "00:00" after are the same in every text
IsoFormat(t) ==
    LET s == t \div TicksPerSecond
        micro == ((t % TicksPerSecond) * 1000000) \div TicksPerSecond
    IN  Digits(s \div 3600, 2) \o <<58>> \o Digits((s \div 60) % 60, 2) \o <<58>>
            \o Digits(s % 60, 2)
            \o (IF micro = 0 THEN <<>> ELSE <<46>> \o Digits(micro, 6))
            \o <<43>>

\* datetime.fromisoformat(text), and the instant julianday(text) stands for
FromIso(text) ==
    LET s == Number(text, 1, 2) * 3600 + Number(text, 4, 2) * 60 + Number(text, 7, 2)
        micro == IF text[9] = 46 THEN Number(text, 10, 6) ELSE 0
    IN  s * TicksPerSecond + (micro * TicksPerSecond + 500000) \div 1000000

\* a < b as SQLite compares TEXT: byte by byte, a proper prefix first
TextLess(a, b) ==
    LET n == IF Len(a) < Len(b) THEN Len(a) ELSE Len(b)
        diff == {i \in 1..n : a[i] # b[i]}
    IN  IF diff = {} THEN Len(a) < Len(b)
        ELSE LET i == CHOOSE i \in diff : \A j \in diff : i <= j IN a[i] < b[i]

\* the values store binds to the INSERT: the timestamp as isoformat text
Row(msg) == [msg EXCEPT !.timestamp = IsoFormat(msg.timestamp)]

\* _row_to_msg
RowToMsg(row) == [row EXCEPT !.timestamp = FromIso(row.timestamp)]

-----------------------------------------------------------------------------
(* models.py: SynapseMessage.to_dict and from_dict *)

\* ParseType substituting the default type for a value that is no member
ParseTypeDefaulting(value) == IF value \in MessageType THEN <<value>> ELSE <<"event">>

\* MessageType(value): the member with that value (a str Enum: the member
\* equals its value), none when the call raises ValueError
ParseType(value) == IF value \in MessageType THEN <<value>> ELSE <<>>

\* Priority(value): the member with that rank, none when the call raises
ParsePriority(value) == IF value \in Priority THEN <<value>> ELSE <<>>

\* data.get(key, default)
DictGet(data, key, default) == IF key \in DOMAIN data THEN data[key] ELSE default

\* SynapseMessage.to_dict
ToDict(m) ==
    [id |-> m.id, channel |-> m.channel, sender |-> m.sender, type |-> m.type,
     priority |-> m.priority, payload |-> m.payload,
     timestamp |-> IsoFormat(m.timestamp), ttl |-> m.ttl, reply_to |-> m.reply_to]

\* SynapseMessage.from_dict: the message, or raised when an enumeration rejects
\* its value
FromDict(data) ==
    LET type == ParseType(data.type)
        priority == ParsePriority(data.priority)
    IN  IF type = <<>> \/ priority = <<>>
        THEN [raised |-> TRUE, msg |-> <<>>]
        ELSE [raised |-> FALSE,
              msg |-> <<[id |-> data.id, channel |-> data.channel, sender |-> data.sender,
                         payload |-> data.payload, type |-> type[1],
                         priority |-> priority[1],
                         timestamp |-> FromIso(data.timestamp),
                         ttl |-> DictGet(data, "ttl", 0),
                         reply_to |-> DictGet(data, "reply_to", None)]>>]

-----------------------------------------------------------------------------
(* storage.py: MessageStore.store *)

\* StoreRows as INSERT OR REPLACE
StoreRowsReplacing(rows, msg, fails) ==
    IF fails THEN [rows |-> rows, ret |-> FALSE, raised |-> FALSE]
    ELSE [rows |-> {r \in rows : r.id # msg.id} \cup {Row(msg)},
          ret |-> TRUE, raised |-> FALSE]

\* StoreRows letting the storage error escape
StoreRowsRaising(rows, msg, fails) ==
    IF fails THEN [rows |-> rows, ret |-> FALSE, raised |-> TRUE]
    ELSE [rows |-> IF \E r \in rows : r.id = msg.id THEN rows ELSE rows \cup {Row(msg)},
          ret |-> TRUE, raised |-> FALSE]

\* INSERT OR IGNORE keyed by id inside try/except sqlite3.Error: the rows
\* afterwards, the value returned, and whether an exception leaves store
StoreRows(rows, msg, fails) ==
    IF fails THEN [rows |-> rows, ret |-> FALSE, raised |-> FALSE]
    ELSE [rows |-> IF \E r \in rows : r.id = msg.id THEN rows ELSE rows \cup {Row(msg)},
          ret |-> TRUE, raised |-> FALSE]

-----------------------------------------------------------------------------
(* storage.py: the queries and cleanup_expired *)

\* the first n elements of q; every element when n is negative (LIMIT)
Limited(q, n) == IF n < 0 \/ n >= Len(q) THEN q ELSE SubSeq(q, 1, n)

Reversed(q) == [i \in 1..Len(q) |-> q[Len(q) + 1 - i]]

\* the orders ORDER BY timestamp DESC may give the rows in: rows of equal
\* timestamp come in any order
DescOrders(rows) ==
    {q \in [1..Cardinality(rows) -> rows] :
        /\ \A i, j \in DOMAIN q : i # j => q[i] # q[j]
        /\ \A i, j \in DOMAIN q : i < j => ~TextLess(q[i].timestamp, q[j].timestamp)}

\* SelectedByChannel taking the rows at since as well
SelectedByChannelInclusive(rows, channel, since) ==
    {r \in rows : /\ r.channel = channel
                  /\ since # <<>> => ~TextLess(r.timestamp, IsoFormat(since[1]))}

\* WHERE channel = ? [AND timestamp > ?]
SelectedByChannel(rows, channel, since) ==
    {r \in rows : /\ r.channel = channel
                  /\ since # <<>> => TextLess(IsoFormat(since[1]), r.timestamp)}

\* WHERE sender = ?
SelectedBySender(rows, sender) == {r \in rows : r.sender = sender}

\* the list returned for the rows in the order q: LIMIT, reversed, as messages
QueryResult(q, limit) ==
    LET rows == Reversed(Limited(q, limit)) IN [i \in DOMAIN rows |-> RowToMsg(rows[i])]

\* CAST((julianday('now') - julianday(timestamp)) * 86400 AS INTEGER) at the
\* instant t: the seconds of the age, truncated. The difference is computed in
\* floating point, so that an age of whole seconds comes out a little below the
\* whole number for some rows (low) and truncates to one second less
AgeSeconds(row, t, low) ==
    LET ticks == t - FromIso(row.timestamp)
        s == ticks \div TicksPerSecond
    IN  IF ticks % TicksPerSecond = 0 /\ s > 0 /\ row \in low THEN s - 1 ELSE s

\* Expired without the test of ttl > 0
ExpiredAnyTtl(rows, t, low) == {r \in rows : AgeSeconds(r, t, low) > r.ttl}

\* the rows the DELETE of cleanup_expired removes
Expired(rows, t, low) == {r \in rows : r.ttl > 0 /\ AgeSeconds(r, t, low) > r.ttl}

-----------------------------------------------------------------------------
(* The publish tasks *)

ZeroPerAgent == [a \in Agents |-> 0]

IdleTask ==
    [pc |-> "idle", msg |-> NoMessage, idx |-> 0, delivered |-> 0,
     live |-> FALSE, snap |-> <<>>, result |-> -1, outcome |-> "none",
     suspended |-> FALSE, copies |-> ZeroPerAgent, expect |-> ZeroPerAgent,
     hooks |-> <<>>, store_ret |-> "unset"]

\* the list object the for loop of publish iterates: the channel's live list until
\* unsubscribe replaces that list by a new one, then the old list
IterList(p) ==
    IF pub[p].live THEN subscriptions[pub[p].msg.channel] ELSE pub[p].snap

\* how many subscriptions of agent a in subs match msg
MatchingOf(subs, a, msg) ==
    LET Hit(s) == s.agent_name = a /\ Matches(s, msg) IN Len(SelectSeq(subs, Hit))

NoSubscription == Subscription(None, None, "none", BACKGROUND, None)

\* the record of a call: ret is the count it returned, obj the object, list the
\* list of messages (0, NoSubscription, <<>> when it returned none of that kind)
Returned(op, args, ret, obj, list) ==
    [op |-> op, args |-> args, ret |-> ret, obj |-> obj, list |-> list]

ProbeOff == [state |-> "off", sub |-> NoSubscription, msg |-> NoMessage, result |-> FALSE]

\* the task of _heartbeat_loop before lifespan has created it
SweeperOff == [pc |-> "off", due |-> 0, started |-> 0, task |-> 0]

\* the bus after SynapseBus(registry, storage), as server.py constructs it
BusInit ==
    /\ channels = [n \in {DefaultChannels[i] : i \in DOMAIN DefaultChannels} |->
                      Channel(n, DefaultDescription(n), 0)]
    /\ subscriptions = [n \in ChannelNames |-> <<>>]
    /\ message_history = <<>>
    /\ inbox = [a \in Agents |-> <<>>]
    /\ stored = {}
    /\ now = 0
    /\ pub = [p \in Tasks |-> IdleTask]
    /\ cur = 0
    /\ last = Returned("init", <<>>, 0, NoSubscription, <<>>)
    /\ dlog = [a \in Agents |-> <<>>]
    /\ used = [publish |-> 0, calls |-> 0]
    /\ agents = [n \in {} |-> 0]
    /\ sweeper = SweeperOff

Init == BusInit /\ probe = ProbeOff

create_channel(name, description) ==
    /\ cur = 0
    /\ channels' = WithChannel(channels, name, description, now)
    /\ last' = Returned("create_channel", <<name, description>>, 0, channels'[name], <<>>)
    /\ used' = [used EXCEPT !.calls = @ + 1]
    /\ UNCHANGED <<subscriptions, message_history, inbox, stored, now, pub, cur, dlog,
                   probe, agents, sweeper>>

subscribe(agent_name, channel, callback, priority_min, type_filter) ==
    /\ cur = 0
    /\ LET sub == Subscription(agent_name, channel, callback, priority_min, type_filter)
       IN  /\ channels' = AutoCreated(channels, channel, now)
           /\ subscriptions' = [subscriptions EXCEPT ![channel] = WithSubscription(@, sub)]
           /\ last' = Returned("subscribe", <<agent_name, channel>>, 0, sub, <<>>)
    /\ used' = [used EXCEPT !.calls = @ + 1]
    /\ UNCHANGED <<message_history, inbox, stored, now, pub, cur, dlog, probe, agents, sweeper>>

unsubscribe(agent_name, channel) ==
    /\ cur = 0
    /\ LET chans == IF channel # None THEN {channel} ELSE DOMAIN subscriptions
           removed == [ch \in chans |->
                          Len(subscriptions[ch]) - Len(Remaining(subscriptions[ch], agent_name))]
       IN  /\ subscriptions' = [ch \in DOMAIN subscriptions |->
                                   IF ch \in chans
                                   THEN Remaining(subscriptions[ch], agent_name)
                                   ELSE subscriptions[ch]]
           \* a publish in flight keeps iterating the list object that was replaced
           /\ pub' = [p \in Tasks |->
                         IF pub[p].live /\ pub[p].msg.channel \in chans
                         THEN [pub[p] EXCEPT !.live = FALSE,
                                             !.snap = subscriptions[pub[p].msg.channel]]
                         ELSE pub[p]]
           /\ last' = Returned("unsubscribe", <<agent_name, channel>>,
                               SumOver(removed, chans), NoSubscription, <<>>)
    /\ used' = [used EXCEPT !.calls = @ + 1]
    /\ UNCHANGED <<channels, message_history, inbox, stored, now, cur, dlog, probe, agents,
                   sweeper>>

clear_inbox(agent_name) ==
    /\ cur = 0
    /\ inbox' = Cleared(inbox, agent_name)
    /\ dlog' = [dlog EXCEPT ![agent_name] = <<>>]
    /\ last' = Returned("clear_inbox", <<agent_name>>, Len(inbox[agent_name]),
                        NoSubscription, <<>>)
    /\ used' = [used EXCEPT !.calls = @ + 1]
    /\ UNCHANGED <<channels, subscriptions, message_history, stored, now, pub, cur, probe, agents,
                   sweeper>>

\* time passes between two calls
Tick ==
    /\ cur = 0
    /\ now' = now + 1
    /\ used' = [used EXCEPT !.calls = @ + 1]
    /\ UNCHANGED <<channels, subscriptions, message_history, inbox, stored, pub, cur,
                   last, dlog, probe, agents, sweeper>>

\* publish(msg), up to the for loop: create the channel, count, append to history
publish(p, msg) ==
    /\ cur = 0
    /\ pub[p].pc \in {"idle", "done"}
    /\ channels' = Counted(AutoCreated(channels, msg.channel, now), msg.channel)
    /\ message_history' = AppendHistory(message_history, msg)
    /\ pub' = [pub EXCEPT ![p] =
                  [IdleTask EXCEPT !.pc = "loop", !.msg = msg, !.idx = 1, !.live = TRUE,
                                   !.expect = [a \in Agents |->
                                       MatchingOf(subscriptions[msg.channel], a, msg)]]]
    /\ cur' = p
    /\ used' = [used EXCEPT !.publish = @ + 1]
    /\ UNCHANGED <<subscriptions, inbox, stored, now, last, dlog, probe, agents, sweeper>>

\* the task after the hook of the subscription at idx was called (or there was none)
Delivered(t, outcome) ==
    LET r == AfterCallback(t.delivered, outcome)
    IN  IF r.raised
        THEN [t EXCEPT !.pc = "done", !.outcome = "raised", !.live = FALSE]
        ELSE [t EXCEPT !.pc = "loop", !.delivered = r.delivered, !.idx = @ + 1]

\* one iteration of the for loop of publish
publish_loop(p) ==
    /\ cur = p
    /\ pub[p].pc = "loop"
    /\ LET t == pub[p]
           subs == IterList(p)
       IN  IF t.idx > Len(subs)
           THEN \* the loop is over: snap keeps the list it went through
                /\ pub' = [pub EXCEPT ![p] = [t EXCEPT !.pc = "store", !.live = FALSE,
                                                       !.snap = subs]]
                /\ UNCHANGED <<inbox, dlog, cur>>
           ELSE LET sub == subs[t.idx]
                    t1 == [t EXCEPT !.copies[sub.agent_name] = @ + 1]
                    t2 == IF sub.callback = "none" THEN t1
                          ELSE [t1 EXCEPT !.hooks = Append(@, <<sub.agent_name, sub.callback>>)]
                IN  IF ~Matches(sub, t.msg)
                    THEN /\ pub' = [pub EXCEPT ![p].idx = @ + 1]
                         /\ UNCHANGED <<inbox, dlog, cur>>
                    ELSE /\ inbox' = [inbox EXCEPT ![sub.agent_name] = AppendInbox(@, t.msg)]
                         /\ dlog' = [dlog EXCEPT ![sub.agent_name] = Append(@, t.msg.id)]
                         /\ IF IsAsync(sub.callback)
                            THEN \* await result: the task is suspended
                                 /\ pub' = [pub EXCEPT ![p] =
                                               [t2 EXCEPT !.pc = "await", !.suspended = TRUE]]
                                 /\ cur' = 0
                            ELSE /\ pub' = [pub EXCEPT ![p] =
                                               Delivered(t2, HookOutcome(sub.callback))]
                                 /\ cur' = IF pub'[p].pc = "done" THEN 0 ELSE p
    /\ UNCHANGED <<channels, subscriptions, message_history, stored, now, last, used,
                   probe, agents, sweeper>>

\* the awaited hook completes (returns or raises) and the task runs again
publish_resume(p) ==
    /\ cur = 0
    /\ pub[p].pc = "await"
    /\ LET sub == IterList(p)[pub[p].idx]
       IN  /\ sub.callback # "async_hang"
           /\ pub' = [pub EXCEPT ![p] = Delivered(pub[p], HookOutcome(sub.callback))]
           /\ cur' = IF pub'[p].pc = "done" THEN 0 ELSE p
    /\ UNCHANGED <<channels, subscriptions, message_history, inbox, stored, now, last,
                   dlog, used, probe, agents, sweeper>>

\* after the loop: self.storage.store(msg), then return delivered
publish_store(p, fails) ==
    /\ cur = p
    /\ pub[p].pc = "store"
    /\ LET r == StoreRows(stored, pub[p].msg, fails)
       IN  /\ stored' = r.rows
           /\ pub' = [pub EXCEPT ![p] =
                         IF r.raised
                         THEN [@ EXCEPT !.pc = "done", !.outcome = "raised"]
                         ELSE [@ EXCEPT !.pc = "done", !.outcome = "returned",
                                        !.result = pub[p].delivered,
                                        !.store_ret = IF r.ret THEN "True" ELSE "False"]]
    /\ cur' = 0
    /\ UNCHANGED <<channels, subscriptions, message_history, inbox, now, last, dlog,
                   used, probe, agents, sweeper>>

\* get_inbox(agent_name, limit, channel) on the inboxes boxes
GetInbox(boxes, agent_name, limit, channel) ==
    LET OnChannel(m) == m.channel = channel
        box == IF agent_name \in DOMAIN boxes THEN boxes[agent_name] ELSE <<>>
        msgs == IF channel # None THEN SelectSeq(box, OnChannel) ELSE box
    IN  PySuffix(msgs, limit)

\* AfterGetInbox handing the messages over: the agent's inbox is emptied
AfterGetInboxConsumed(boxes, agent_name) ==
    [a \in DOMAIN boxes |-> IF a = agent_name THEN <<>> ELSE boxes[a]]

\* get_inbox reads with self._inbox.get(agent_name, []) and assigns nothing: the
\* inboxes after the call
AfterGetInbox(boxes, agent_name) == boxes

get_inbox(agent_name, limit, channel) ==
    /\ cur = 0
    /\ inbox' = AfterGetInbox(inbox, agent_name)
    /\ last' = Returned("get_inbox", <<agent_name, limit, channel>>, 0, NoSubscription,
                        GetInbox(inbox, agent_name, limit, channel))
    /\ used' = [used EXCEPT !.calls = @ + 1]
    /\ UNCHANGED <<channels, subscriptions, message_history, stored, now, pub, cur, dlog,
                   probe, agents, sweeper>>

\* get_history(channel, limit, since) on the buffer history; since is <<>> for
\* None and <<t>> for the instant t
GetHistory(history, channel, limit, since) ==
    LET OnChannel(m) == m.channel = channel
        NotBefore(m) == m.timestamp >= since[1]
        m1 == IF channel # None THEN SelectSeq(history, OnChannel) ELSE history
        m2 == IF since # <<>> THEN SelectSeq(m1, NotBefore) ELSE m1
    IN  PySuffix(m2, limit)

get_history(channel, limit, since) ==
    /\ cur = 0
    /\ last' = Returned("get_history", <<channel, limit, since>>, 0, NoSubscription,
                        GetHistory(message_history, channel, limit, since))
    /\ used' = [used EXCEPT !.calls = @ + 1]
    /\ UNCHANGED <<channels, subscriptions, message_history, inbox, stored, now, pub, cur,
                   dlog, probe, agents, sweeper>>

\* stats() counting the messages waiting in the inboxes as messages_total
StatsOfInboxes ==
    [channels |-> Cardinality(DOMAIN channels),
     subscriptions |-> SumOver([c \in DOMAIN subscriptions |-> Len(subscriptions[c])],
                               DOMAIN subscriptions),
     agents_online |-> Cardinality(ListAgents(agents, <<>>)),
     messages_total |-> SumOver([a \in DOMAIN inbox |-> Len(inbox[a])], DOMAIN inbox),
     history_size |-> Len(message_history)]

\* stats(): the summary of the bus
Stats ==
    [channels |-> Cardinality(DOMAIN channels),
     subscriptions |-> SumOver([c \in DOMAIN subscriptions |-> Len(subscriptions[c])],
                               DOMAIN subscriptions),
     agents_online |-> Cardinality(ListAgents(agents, <<>>)),
     messages_total |-> SumOver([c \in DOMAIN channels |-> channels[c].message_count],
                                DOMAIN channels),
     history_size |-> Len(message_history)]

-----------------------------------------------------------------------------
(* registry.py: the actions of AgentRegistry *)

register(name, capabilities, channels_, metadata) ==
    /\ cur = 0
    /\ agents' = Registered(agents, name, capabilities, channels_, metadata, now)
    /\ last' = Returned("register", <<name, capabilities, channels_, metadata>>, 0,
                        agents'[name], <<>>)
    /\ used' = [used EXCEPT !.calls = @ + 1]
    /\ UNCHANGED <<channels, subscriptions, message_history, inbox, stored, now, pub, cur,
                   dlog, probe, sweeper>>

unregister(name) ==
    /\ cur = 0
    /\ agents' = Unregistered(agents, name)
    /\ last' = Returned("unregister", <<name>>, 0, [ok |-> name \in DOMAIN agents], <<>>)
    /\ used' = [used EXCEPT !.calls = @ + 1]
    /\ UNCHANGED <<channels, subscriptions, message_history, inbox, stored, now, pub, cur,
                   dlog, probe, sweeper>>

heartbeat(name) ==
    /\ cur = 0
    /\ agents' = Heartbeat(agents, name, now)
    /\ last' = Returned("heartbeat", <<name>>, 0, [ok |-> TRUE], <<>>)
    /\ used' = [used EXCEPT !.calls = @ + 1]
    /\ UNCHANGED <<channels, subscriptions, message_history, inbox, stored, now, pub, cur,
                   dlog, probe, sweeper>>

check_timeouts ==
    /\ cur = 0
    /\ agents' = SweptAgents(agents, now)
    /\ last' = Returned("check_timeouts", <<now>>, 0, [timed_out |-> TimedOut(agents, now)], <<>>)
    /\ used' = [used EXCEPT !.calls = @ + 1]
    /\ UNCHANGED <<channels, subscriptions, message_history, inbox, stored, now, pub, cur,
                   dlog, probe, sweeper>>

\* the holder of an AgentInfo assigns its status, as the server does at startup
set_status(name, status) ==
    /\ cur = 0
    /\ name \in DOMAIN agents
    /\ agents' = [agents EXCEPT ![name].status = status]
    /\ last' = Returned("set_status", <<name, status>>, 0, agents'[name], <<>>)
    /\ used' = [used EXCEPT !.calls = @ + 1]
    /\ UNCHANGED <<channels, subscriptions, message_history, inbox, stored, now, pub, cur,
                   dlog, probe, sweeper>>

\* MessageStore.store(msg)
store(msg, fails) ==
    /\ cur = 0
    /\ LET r == StoreRows(stored, msg, fails)
       IN  /\ stored' = r.rows
           /\ last' = Returned("store", <<msg, fails>>, 0, [ok |-> r.ret], <<>>)
    /\ used' = [used EXCEPT !.calls = @ + 1]
    /\ UNCHANGED <<channels, subscriptions, message_history, inbox, now, pub, cur, dlog,
                   probe, agents, sweeper>>

\* MessageStore.get_history(channel, limit, since)
store_get_history(channel, limit, since) ==
    /\ cur = 0
    /\ \E q \in DescOrders(SelectedByChannel(stored, channel, since)) :
          last' = Returned("store_get_history", <<channel, limit, since>>, 0,
                           NoSubscription, QueryResult(q, limit))
    /\ used' = [used EXCEPT !.calls = @ + 1]
    /\ UNCHANGED <<channels, subscriptions, message_history, inbox, stored, now, pub, cur,
                   dlog, probe, agents, sweeper>>

\* MessageStore.get_by_sender(sender, limit)
get_by_sender(sender, limit) ==
    /\ cur = 0
    /\ \E q \in DescOrders(SelectedBySender(stored, sender)) :
          last' = Returned("get_by_sender", <<sender, limit>>, 0,
                           NoSubscription, QueryResult(q, limit))
    /\ used' = [used EXCEPT !.calls = @ + 1]
    /\ UNCHANGED <<channels, subscriptions, message_history, inbox, stored, now, pub, cur,
                   dlog, probe, agents, sweeper>>

\* MessageStore.count(channel)
count(channel) ==
    /\ cur = 0
    /\ last' = Returned("count", <<channel>>,
                        IF channel # None
                        THEN Cardinality({r \in stored : r.channel = channel})
                        ELSE Cardinality(stored),
                        NoSubscription, <<>>)
    /\ used' = [used EXCEPT !.calls = @ + 1]
    /\ UNCHANGED <<channels, subscriptions, message_history, inbox, stored, now, pub, cur,
                   dlog, probe, agents, sweeper>>

\* MessageStore.cleanup_expired()
cleanup_expired(low) ==
    /\ cur = 0
    /\ stored' = stored \ Expired(stored, now, low)
    /\ last' = Returned("cleanup_expired", <<>>, Cardinality(Expired(stored, now, low)),
                        NoSubscription, <<>>)
    /\ used' = [used EXCEPT !.calls = @ + 1]
    /\ UNCHANGED <<channels, subscriptions, message_history, inbox, now, pub, cur, dlog,
                   probe, agents, sweeper>>

\* m.to_dict()
to_dict(m) ==
    /\ cur = 0
    /\ last' = Returned("to_dict", <<m>>, 0, ToDict(m), <<>>)
    /\ used' = [used EXCEPT !.calls = @ + 1]
    /\ UNCHANGED <<channels, subscriptions, message_history, inbox, stored, now, pub, cur,
                   dlog, probe, agents, sweeper>>

\* SynapseMessage.from_dict(data)
from_dict(data) ==
    /\ cur = 0
    /\ LET r == FromDict(data)
       IN  last' = Returned("from_dict", <<data>>, 0, [raised |-> r.raised], r.msg)
    /\ used' = [used EXCEPT !.calls = @ + 1]
    /\ UNCHANGED <<channels, subscriptions, message_history, inbox, stored, now, pub, cur,
                   dlog, probe, agents, sweeper>>

\* the handler of POST /publish, up to the first await inside bus.publish: the
\* message is built from the request, MessageType(req.type) and
\* Priority(req.priority) raising for a value that is no member
publish_message(p, req) ==
    LET type == ParseType(req.type)
        priority == ParsePriority(req.priority)
    IN  IF type = <<>> \/ priority = <<>>
        THEN /\ cur = 0
             /\ last' = Returned("publish_message", <<req>>, 0, [raised |-> TRUE], <<>>)
             /\ used' = [used EXCEPT !.publish = @ + 1]
             /\ UNCHANGED <<channels, subscriptions, message_history, inbox, stored, now,
                            pub, cur, dlog, probe, agents, sweeper>>
        ELSE publish(p, [SynapseMessage(used.publish + 1, req.channel, type[1],
                                        priority[1], now) EXCEPT !.payload = req.payload])

\* Elapse setting offline the agents whose heartbeat lapsed meanwhile
ElapseDemoting(d) ==
    /\ cur = 0
    /\ now' = now + d
    /\ agents' = SweptAgents(agents, now')
    /\ used' = [used EXCEPT !.calls = @ + 1]
    /\ UNCHANGED <<channels, subscriptions, message_history, inbox, stored, pub, cur,
                   last, dlog, probe, sweeper>>

\* d ticks pass between two calls
Elapse(d) ==
    /\ cur = 0
    /\ now' = now + d
    /\ used' = [used EXCEPT !.calls = @ + 1]
    /\ UNCHANGED <<channels, subscriptions, message_history, inbox, stored, pub, cur,
                   last, dlog, probe, agents, sweeper>>

-----------------------------------------------------------------------------
(* The bus under concurrent callers *)

\* the subscribe calls of a run: agent, channel, hook, priority_min, type_filter
SpecSubscribes ==
    { <<"agent-a", "#alerts", "async_ok", BACKGROUND, None>>,
      <<"agent-a", "#alerts", "async_hang", BACKGROUND, None>>,
      <<"agent-b", "#alerts", "sync_raise", NORMAL, None>>,
      <<"agent-b", "#alerts", "none", BACKGROUND, None>>,
      <<"agent-a", "#test", "none", BACKGROUND, None>> }

\* the messages of a run: channel, type, priority
SpecMessages ==
    { <<"#alerts", "event", HIGH>>, <<"#alerts", "event", LOW>>, <<"#test", "alert", HIGH>> }

SpecUnsubscribes == Agents \X {"#alerts", None}

SpecCreates == {"#alerts", "#test"} \X {"First", "Second"}

\* a call takes the first task slot that is not inside publish()
FreeSlot(p) ==
    /\ pub[p].pc \in {"idle", "done"}
    /\ \A q \in Tasks : q < p => pub[q].pc \notin {"idle", "done"}

Next ==
    \/ \E s \in SpecSubscribes :
          used.calls < MaxCalls /\ subscribe(s[1], s[2], s[3], s[4], s[5])
    \/ \E u \in SpecUnsubscribes :
          used.calls < MaxCalls /\ unsubscribe(u[1], u[2])
    \/ \E c \in SpecCreates :
          used.calls < MaxCalls /\ create_channel(c[1], c[2])
    \/ \E a \in Agents : used.calls < MaxCalls /\ clear_inbox(a)
    \/ used.calls < MaxCalls /\ Tick
    \/ \E p \in Tasks, m \in SpecMessages :
          /\ used.publish < MaxPublish
          /\ FreeSlot(p)
          /\ publish(p, SynapseMessage(used.publish + 1, m[1], m[2], m[3], now))
    \/ \E p \in Tasks : publish_loop(p)
    \/ \E p \in Tasks : publish_resume(p)
    \/ \E p \in Tasks, fails \in BOOLEAN : publish_store(p, fails)

Spec == Init /\ [][Next]_vars

-----------------------------------------------------------------------------
(* Subscription.matches on every subscription filter and every message *)

InitMatch ==
    /\ BusInit
    /\ probe \in { [state |-> "input",
                    sub |-> Subscription("a", "#alerts", "none", pm, tf),
                    msg |-> SynapseMessage(1, "#alerts", ty, pr, 0),
                    result |-> FALSE] :
                   pm \in Priority, tf \in MessageType \cup {None},
                   ty \in MessageType, pr \in Priority }

matches ==
    /\ probe.state = "input"
    /\ probe' = [probe EXCEPT !.state = "result", !.result = Matches(probe.sub, probe.msg)]
    /\ UNCHANGED <<channels, subscriptions, message_history, inbox, stored, now, pub, cur,
                   last, dlog, used, agents, sweeper>>

NextMatch == matches

SpecMatch == InitMatch /\ [][NextMatch]_vars

-----------------------------------------------------------------------------
(* One publisher filling the history and the inboxes past their capacity *)

CapSubscribes ==
    { <<"agent-a", "#alerts", "none", BACKGROUND, None>>,
      <<"agent-b", "#alerts", "sync_ok", NORMAL, None>> }

\* the k-th message of the run: mostly on #alerts, of changing priority
CapMessage(k) ==
    SynapseMessage(k, IF k % 7 = 0 THEN "#system"
                      ELSE IF k % 11 = 0 THEN "#test" ELSE "#alerts",
                   "event", IF k % 3 = 0 THEN LOW ELSE HIGH, now)

NextCap ==
    \/ \E s \in CapSubscribes :
          /\ used.publish = 0
          /\ used.calls < CapCalls
          /\ subscribe(s[1], s[2], s[3], s[4], s[5])
    \/ used.publish < CapPublish /\ publish(1, CapMessage(used.publish + 1))
    \/ publish_loop(1)
    \/ publish_store(1, FALSE)
    \* at the end of the run the agents empty their inboxes
    \/ \E a \in Agents :
          used.publish = CapPublish /\ inbox[a] # <<>> /\ clear_inbox(a)

SpecCap == Init /\ [][NextCap]_vars

-----------------------------------------------------------------------------
(* Readers of the inboxes and of the history between the publishes *)

ReadSubscribes ==
    { <<"agent-a", "#alerts", "none", BACKGROUND, None>>,
      <<"agent-a", "#test", "none", BACKGROUND, None>>,
      <<"agent-b", "#alerts", "none", NORMAL, None>> }

ReadMessages == { <<"#alerts", "event", HIGH>>, <<"#test", "alert", LOW>> }

\* "agent-x" never subscribes: it has no inbox
ReadAgents == Agents \cup {"agent-x"}

ReadLimits == {0, 1, 20}

ReadChannels == {None, "#alerts", "#test"}

\* since: absent, or an instant of the run
ReadSinces == {<<>>, <<0>>, <<1>>}

NextRead ==
    \/ \E s \in ReadSubscribes :
          used.calls < ReadCalls /\ subscribe(s[1], s[2], s[3], s[4], s[5])
    \/ used.calls < ReadCalls /\ Tick
    \/ \E m \in ReadMessages :
          /\ used.publish < ReadPublish
          /\ publish(1, SynapseMessage(used.publish + 1, m[1], m[2], m[3], now))
    \/ publish_loop(1)
    \/ \E fails \in BOOLEAN : publish_store(1, fails)
    \/ \E a \in ReadAgents, limit \in ReadLimits, c \in ReadChannels :
          used.calls < ReadCalls /\ get_inbox(a, limit, c)
    \/ \E c \in ReadChannels, limit \in ReadLimits, since \in ReadSinces :
          used.calls < ReadCalls /\ get_history(c, limit, since)

SpecRead == Init /\ [][NextRead]_vars

-----------------------------------------------------------------------------
(* Agents that register, send heartbeats, leave and time out *)

\* the optional arguments of register: the three absent, or the three given
RegisterArgs ==
    { <<<<>>, <<>>, <<>>>>,
      <<<< <<"chat">> >>, << <<"#alerts">> >>, << {"v1"} >>>> }

\* the ticks between two calls: the timeout exactly, or one tick more
Waits == {heartbeat_timeout * TicksPerSecond, heartbeat_timeout * TicksPerSecond + 1}

\* the statuses a holder assigns
SetStatuses == {"busy", "offline"}

NextRegistry ==
    \/ \E n \in Agents, r \in RegisterArgs :
          used.calls < RegistryCalls /\ register(n, r[1], r[2], r[3])
    \/ \E n \in Agents : used.calls < RegistryCalls /\ unregister(n)
    \/ \E n \in Agents : used.calls < RegistryCalls /\ heartbeat(n)
    \/ used.calls < RegistryCalls /\ check_timeouts
    \/ \E n \in Agents, st \in SetStatuses :
          used.calls < RegistryCalls /\ set_status(n, st)
    \/ \E d \in Waits : used.calls < RegistryCalls /\ Elapse(d)

SpecRegistry == Init /\ [][NextRegistry]_vars

-----------------------------------------------------------------------------
(* The MessageStore on its own *)

\* the messages stored, as <<id, channel, sender, ttl>>: id 1 comes twice, with
\* different fields; the timestamp is the instant of the call
StoreInputs ==
    { <<1, "#alerts", "agent-a", 0>>,
      <<1, "#system", "agent-b", 1>>,
      <<2, "#alerts", "agent-b", 1>>,
      <<3, "#alerts", "agent-a", 0>> }

StoreMessage(i, t) ==
    [SynapseMessage(i[1], i[2], "event", NORMAL, t) EXCEPT !.sender = i[3], !.ttl = i[4]]

\* the ticks between two calls: one, or one more than a second
StoreWaits == {1, TicksPerSecond + 1}

StoreLimits == {0, 1, 50}

StoreSinces == {<<>>, <<0>>, <<1>>}

NextStore ==
    \/ \E i \in StoreInputs, fails \in BOOLEAN :
          used.calls < StoreCalls /\ store(StoreMessage(i, now), fails)
    \/ \E ch \in {"#alerts", "#system"}, limit \in StoreLimits, since \in StoreSinces :
          used.calls < StoreCalls /\ store_get_history(ch, limit, since)
    \/ \E a \in Agents, limit \in StoreLimits :
          used.calls < StoreCalls /\ get_by_sender(a, limit)
    \/ \E ch \in {None, "#alerts"} : used.calls < StoreCalls /\ count(ch)
    \/ \E low \in SUBSET {r \in stored : r.ttl > 0} :
          used.calls < StoreCalls /\ cleanup_expired(low)
    \/ \E d \in StoreWaits : used.calls < StoreCalls /\ Elapse(d)

SpecStore == Init /\ [][NextStore]_vars

-----------------------------------------------------------------------------
(* server.py: the agent endpoints, lifespan and _heartbeat_loop *)

\* the agents lifespan registers at startup: one of the four of the source,
\* under the name of an agent of the model
KNOWN_AGENTS ==
    << [name |-> "agent-a", capabilities |-> <<"chat">>,
        channels |-> <<"#alerts", "#system">>] >>

\* the seconds _heartbeat_loop sleeps before each sweep
sweep_interval == 30

\* SubscribedTo leaving out a channel the agent is subscribed to already
RECURSIVE SubscribedToOnce(_, _, _)
SubscribedToOnce(subs, name, chans) ==
    IF chans = <<>> THEN subs
    ELSE LET ch == Head(chans)
             has == \E i \in DOMAIN subs[ch] : subs[ch][i].agent_name = name
         IN  SubscribedToOnce(
                 IF has THEN subs
                 ELSE [subs EXCEPT ![ch] =
                          WithSubscription(@, Subscription(name, ch, "none", BACKGROUND, None))],
                 name, Tail(chans))

\* for ch in channels: bus.subscribe(name, ch): the subscriptions afterwards
RECURSIVE SubscribedTo(_, _, _)
SubscribedTo(subs, name, chans) ==
    IF chans = <<>> THEN subs
    ELSE SubscribedTo(
             [subs EXCEPT ![Head(chans)] =
                 WithSubscription(@, Subscription(name, Head(chans), "none", BACKGROUND, None))],
             name, Tail(chans))

\* for ch in channels: bus.subscribe(name, ch): the channel map afterwards
RECURSIVE CreatedAll(_, _, _)
CreatedAll(chs, chans, t) ==
    IF chans = <<>> THEN chs
    ELSE CreatedAll(AutoCreated(chs, Head(chans), t), Tail(chans), t)

\* lifespan: the agents after the known agents are registered and set offline
RECURSIVE PreRegistered(_, _, _)
PreRegistered(agts, defs, t) ==
    IF defs = <<>> THEN agts
    ELSE LET d == Head(defs)
             r == Registered(agts, d.name, <<d.capabilities>>, <<d.channels>>, <<>>, t)
         IN  PreRegistered([r EXCEPT ![d.name].status = "offline"], Tail(defs), t)

\* lifespan: the subscriptions after the known agents are subscribed
RECURSIVE PreSubscribed(_, _)
PreSubscribed(subs, defs) ==
    IF defs = <<>> THEN subs
    ELSE PreSubscribed(SubscribedTo(subs, Head(defs).name, Head(defs).channels), Tail(defs))

\* lifespan: the channel map after the known agents are subscribed
RECURSIVE PreCreated(_, _, _)
PreCreated(chs, defs, t) ==
    IF defs = <<>> THEN chs
    ELSE PreCreated(CreatedAll(chs, Head(defs).channels, t), Tail(defs), t)

\* the names in a payload, one after the other
RECURSIVE Joined(_)
Joined(names) ==
    IF names = {} THEN ""
    ELSE LET n == CHOOSE n \in names : TRUE IN " " \o n \o Joined(names \ {n})

\* TimedOutEvent at the default priority
TimedOutEventNormal(id, timed_out, t) ==
    [SynapseMessage(id, "#system", "event", NORMAL, t) EXCEPT
        !.sender = "synapse", !.payload = "agents_timed_out:" \o Joined(timed_out)]

\* the message _heartbeat_loop publishes for the agents timed_out
TimedOutEvent(id, timed_out, t) ==
    [SynapseMessage(id, "#system", "event", HIGH, t) EXCEPT
        !.sender = "synapse", !.payload = "agents_timed_out:" \o Joined(timed_out)]

\* NextDue at a fixed rate: the sweeps that fell due meanwhile are made up for
NextDueFixedRate(sw, t) == sw.due + sweep_interval * TicksPerSecond

\* await asyncio.sleep(30), called at the instant t: when it ends
NextDue(sw, t) == t + sweep_interval * TicksPerSecond

\* the app starts: lifespan up to the yield
lifespan ==
    /\ cur = 0
    /\ sweeper.pc = "off"
    /\ agents' = PreRegistered(agents, KNOWN_AGENTS, now)
    /\ subscriptions' = PreSubscribed(subscriptions, KNOWN_AGENTS)
    /\ channels' = PreCreated(channels, KNOWN_AGENTS, now)
    /\ sweeper' = [sweeper EXCEPT !.pc = "sleep", !.due = NextDue(sweeper, now)]
    /\ last' = Returned("lifespan", <<>>, 0, NoSubscription, <<>>)
    /\ used' = [used EXCEPT !.calls = @ + 1]
    /\ UNCHANGED <<message_history, inbox, stored, now, pub, cur, dlog, probe>>

\* POST /agents/register
register_agent(name, capabilities, channels_, metadata) ==
    /\ cur = 0
    /\ agents' = Registered(agents, name, <<capabilities>>, <<channels_>>, <<metadata>>, now)
    /\ subscriptions' = SubscribedTo(subscriptions, name, channels_)
    /\ channels' = CreatedAll(channels, channels_, now)
    /\ last' = Returned("register_agent", <<name, capabilities, channels_, metadata>>, 0,
                        agents'[name], <<>>)
    /\ used' = [used EXCEPT !.calls = @ + 1]
    /\ UNCHANGED <<message_history, inbox, stored, now, pub, cur, dlog, probe, sweeper>>

\* DELETE /agents/{name}: 404 for an unknown name
unregister_agent(name) ==
    /\ cur = 0
    /\ agents' = Unregistered(agents, name)
    /\ IF name \notin DOMAIN agents
       THEN /\ last' = Returned("unregister_agent", <<name>>, 404, [ok |-> FALSE], <<>>)
            /\ UNCHANGED <<subscriptions, pub>>
       ELSE /\ subscriptions' = [ch \in DOMAIN subscriptions |->
                                    Remaining(subscriptions[ch], name)]
            /\ pub' = [p \in Tasks |->
                          IF pub[p].live
                          THEN [pub[p] EXCEPT !.live = FALSE,
                                              !.snap = subscriptions[pub[p].msg.channel]]
                          ELSE pub[p]]
            /\ last' = Returned("unregister_agent", <<name>>, 200, [ok |-> TRUE], <<>>)
    /\ used' = [used EXCEPT !.calls = @ + 1]
    /\ UNCHANGED <<channels, message_history, inbox, stored, now, cur, dlog, probe, sweeper>>

\* _heartbeat_loop wakes: check_timeouts, and for a non-empty result the call
\* of bus.publish up to its for loop
heartbeat_loop_sweep(p) ==
    /\ cur = 0
    /\ sweeper.pc = "sleep"
    /\ now >= sweeper.due
    /\ FreeSlot(p)
    /\ LET timed_out == TimedOut(agents, now)
           msg == TimedOutEvent(used.publish + 1, timed_out, now)
       IN  /\ agents' = SweptAgents(agents, now)
           /\ last' = Returned("check_timeouts", <<now>>, 0, [timed_out |-> timed_out], <<>>)
           /\ IF timed_out = {}
              THEN /\ sweeper' = [sweeper EXCEPT !.due = NextDue(sweeper, now),
                                                 !.started = now]
                   /\ used' = [used EXCEPT !.calls = @ + 1]
                   /\ UNCHANGED <<channels, message_history, pub, cur>>
              ELSE /\ channels' = Counted(AutoCreated(channels, msg.channel, now), msg.channel)
                   /\ message_history' = AppendHistory(message_history, msg)
                   /\ pub' = [pub EXCEPT ![p] =
                                 [IdleTask EXCEPT !.pc = "loop", !.msg = msg, !.idx = 1,
                                                  !.live = TRUE,
                                                  !.expect = [a \in Agents |->
                                                      MatchingOf(subscriptions[msg.channel],
                                                                 a, msg)]]]
                   /\ cur' = p
                   /\ sweeper' = [sweeper EXCEPT !.pc = "publish", !.task = p,
                                                 !.started = now]
                   /\ used' = [used EXCEPT !.calls = @ + 1, !.publish = @ + 1]
    /\ UNCHANGED <<subscriptions, inbox, stored, now, dlog, probe>>

\* bus.publish has returned: _heartbeat_loop sleeps again
heartbeat_loop_sleep ==
    /\ cur = 0
    /\ sweeper.pc = "publish"
    /\ pub[sweeper.task].pc = "done"
    /\ sweeper' = [sweeper EXCEPT !.pc = "sleep", !.due = NextDue(sweeper, now)]
    /\ UNCHANGED <<channels, subscriptions, message_history, inbox, stored, now, pub, cur,
                   last, dlog, used, probe, agents>>

\* the bodies of the register requests: capabilities, channels, metadata
ServerRegisters ==
    { << <<"chat">>, <<"#alerts">>, {"v1"} >>,
      << <<>>, <<"#alerts", "#test">>, {} >> }

\* the bodies of the publish requests
ServerRequests ==
    { [channel |-> channel, type |-> "event", priority |-> NORMAL, payload |-> "{}"] :
        channel \in {"#alerts", "#system"} }

\* the ticks between two steps: the sleep of the sweeper, or the timeout and a tick
ServerWaits == {sweep_interval * TicksPerSecond, heartbeat_timeout * TicksPerSecond + 1}

NextServer ==
    \/ used.calls < ServerCalls /\ lifespan
    \/ \E n \in Agents, r \in ServerRegisters :
          /\ sweeper.pc # "off"
          /\ used.calls < ServerCalls
          /\ register_agent(n, r[1], r[2], r[3])
    \/ \E n \in Agents :
          sweeper.pc # "off" /\ used.calls < ServerCalls /\ unregister_agent(n)
    \/ \E n \in Agents : sweeper.pc # "off" /\ used.calls < ServerCalls /\ heartbeat(n)
    \/ \E p \in Tasks, req \in ServerRequests :
          /\ sweeper.pc # "off"
          /\ used.publish < ServerPublish
          /\ FreeSlot(p)
          /\ publish_message(p, req)
    \/ \E p \in Tasks : publish_loop(p)
    \/ \E p \in Tasks : publish_store(p, FALSE)
    \/ \E p \in Tasks :
          /\ used.calls < ServerCalls
          /\ used.publish < ServerPublish
          /\ heartbeat_loop_sweep(p)
    \/ heartbeat_loop_sleep
    \/ \E d \in ServerWaits :
          sweeper.pc # "off" /\ used.calls < ServerCalls /\ Elapse(d)

SpecServer == Init /\ [][NextServer]_vars

-----------------------------------------------------------------------------
(* Messages on the wire: to_dict, from_dict and the publish endpoint *)

\* the instants of the messages: whole seconds, fractions, past the minute and
\* past the hour
WireInstants == {0, 1, TicksPerSecond * 75, TicksPerSecond * 3725 + 1}

WireMessages ==
    { [SynapseMessage(7, "#alerts", type, priority, t) EXCEPT !.ttl = o[1],
                                                               !.reply_to = o[2]] :
        type \in MessageType, priority \in Priority, t \in WireInstants,
        o \in {<<0, None>>, <<30, "m0">>} }

\* dictionaries from_dict is given besides the ones to_dict made: a type or a
\* priority that is no member, and one without the keys ttl and reply_to
WireDicts ==
    { [ToDict(SynapseMessage(8, "#alerts", "event", NORMAL, 1)) EXCEPT
           !.type = type, !.priority = priority] :
        type \in {"event", "EVENT", "bogus"}, priority \in {NORMAL, 5, -1} }
    \cup { [id |-> 9, channel |-> "#alerts", sender |-> "t", payload |-> "{}",
            type |-> "alert", priority |-> HIGH, timestamp |-> IsoFormat(1)] }

\* the payload of a request that says which type and priority it asks for
RequestNote(type, priority) == type \o "/" \o ToString(priority)

\* the bodies of the publish requests
WireRequests ==
    { [channel |-> channel, type |-> type, priority |-> priority,
       payload |-> RequestNote(type, priority)] :
        channel \in {"#alerts", "#test"}, type \in {"event", "EVENT", "bogus"},
        priority \in {NORMAL, 5, -1} }

NextWire ==
    \/ \E m \in WireMessages : used.calls < WireCalls /\ to_dict(m)
    \/ \E data \in WireDicts \cup (IF last.op = "to_dict" THEN {last.obj} ELSE {}) :
          used.calls < WireCalls /\ from_dict(data)
    \/ \E ch \in {"#alerts", "#test"} :
          used.calls < WireCalls /\ subscribe("agent-a", ch, "none", BACKGROUND, None)
    \/ \E p \in Tasks, req \in WireRequests :
          used.publish < WirePublish /\ FreeSlot(p) /\ publish_message(p, req)
    \/ \E p \in Tasks : publish_loop(p)
    \/ \E p \in Tasks, fails \in BOOLEAN : publish_store(p, fails)

SpecWire == Init /\ [][NextWire]_vars

-----------------------------------------------------------------------------
(* Publishers whose hooks may never complete, under a fair event loop *)

LiveSubscribes ==
    { <<"agent-a", "#alerts", "async_hang", BACKGROUND, None>>,
      <<"agent-a", "#alerts", "async_ok", BACKGROUND, None>>,
      <<"agent-b", "#alerts", "none", BACKGROUND, None>> }

NextLive ==
    \/ \E s \in LiveSubscribes :
          used.calls < MaxCalls /\ subscribe(s[1], s[2], s[3], s[4], s[5])
    \/ \E p \in Tasks :
          /\ used.publish < MaxPublish
          /\ FreeSlot(p)
          /\ publish(p, SynapseMessage(used.publish + 1, "#alerts", "event", NORMAL, now))
    \/ \E p \in Tasks : publish_loop(p)
    \/ \E p \in Tasks : publish_resume(p)
    \/ \E p \in Tasks, fails \in BOOLEAN : publish_store(p, fails)

\* the event loop runs every task that is ready to run, and a hook that completes
\* wakes the publish that awaits it
Fairness ==
    \A p \in Tasks :
        /\ WF_vars(publish_loop(p))
        /\ WF_vars(publish_resume(p))
        /\ WF_vars(\E fails \in BOOLEAN : publish_store(p, fails))

SpecLive == Init /\ [][NextLive]_vars /\ Fairness

-----------------------------------------------------------------------------
(* Claims *)

Min(x, y) == IF x < y THEN x ELSE y

\* this step is the call publish(msg) by task p
PublishCalled(p) == pub[p].pc \in {"idle", "done"} /\ pub'[p].pc = "loop"

\* the position of the message with this id in the history buffer, 0 if absent
HistoryPos(id) ==
    IF \E i \in DOMAIN message_history : message_history[i].id = id
    THEN CHOOSE i \in DOMAIN message_history : message_history[i].id = id
    ELSE 0

\* the subscriptions of subs that match msg, in order
MatchingSubs(subs, msg) == LET Hit(s) == Matches(s, msg) IN SelectSeq(subs, Hit)

\* C1: publish(m) with m.channel = c raises channel(c).message_count by exactly
\* 1, leaves every other channel's message_count as it was, and makes m the
\* last element of get_history(channel=c).
C1_PublishCountsAndAppends ==
    [][\A p \in Tasks :
          PublishCalled(p) =>
              LET m == pub'[p].msg
                  c == m.channel
                  before == IF c \in DOMAIN channels THEN channels[c].message_count ELSE 0
                  h == GetHistory(message_history', c, 50, <<>>)
              IN  /\ c \in DOMAIN channels'
                  /\ channels'[c].message_count = before + 1
                  /\ \A d \in DOMAIN channels' \ {c} :
                        /\ d \in DOMAIN channels
                        /\ channels'[d].message_count = channels[d].message_count
                  /\ Len(h) > 0
                  /\ h[Len(h)] = m]_vars

\* two publishes on two channels were made; each channel counts its own one
C1_Witness ==
    /\ used.publish = 2
    /\ "#test" \in DOMAIN channels
    /\ channels["#test"].message_count = 1
    /\ channels["#alerts"].message_count = 1
    /\ message_history[2].channel = "#test"

\* C2: when publish(m) has returned, the number of copies of m appended to
\* each agent's inbox is the number of that agent's subscriptions on m.channel
\* that matched m when publish was called (none for an agent without one); an
\* agent with one default subscription and an empty inbox then holds exactly m.
C2_CopiesEqualSubscriptionsAtCall ==
    \A p \in Tasks :
        pub[p].pc = "done" =>
            \A a \in Agents : pub[p].copies[a] = pub[p].expect[a]

\* C4: publish returns the number of subscriptions it went through that matched
\* the message, those whose hook raised included; after a hook raised, the later
\* matching subscriptions still got their inbox copy and their hook call, and
\* publish returned normally.
C4_ReturnCountsMatches ==
    \A p \in Tasks :
        pub[p].pc = "done" =>
            LET hit == MatchingSubs(pub[p].snap, pub[p].msg)
                Hooked(s) == s.callback # "none"
                hooked == SelectSeq(hit, Hooked)
            IN  /\ pub[p].outcome = "returned"
                /\ pub[p].result = Len(hit)
                /\ \A a \in Agents :
                      pub[p].copies[a] = MatchingOf(pub[p].snap, a, pub[p].msg)
                /\ Len(pub[p].hooks) = Len(hooked)
                /\ \A i \in DOMAIN hooked :
                      pub[p].hooks[i] = <<hooked[i].agent_name, hooked[i].callback>>
                /\ (~pub[p].suspended =>
                        pub[p].result = SumOver(pub[p].expect, Agents))

\* a publish returned 2 after the hook of its first matching subscription raised
C4_Witness ==
    \E p \in Tasks :
        /\ pub[p].pc = "done"
        /\ pub[p].result = 2
        /\ Len(pub[p].snap) = 2
        /\ pub[p].snap[1].callback = "sync_raise"
        /\ pub[p].hooks[1] = <<"agent-b", "sync_raise">>
        /\ pub[p].copies["agent-a"] = 1

\* C5: overlapping publishes take effect in one total order: the history and
\* the message counts grow together, and every inbox holds its messages in the
\* order the history holds them.
C5_OneTotalOrder ==
    /\ Len(message_history) = used.publish
    /\ SumOver([c \in DOMAIN channels |-> channels[c].message_count], DOMAIN channels)
          = used.publish
    /\ \A a \in Agents :
          \A i, j \in DOMAIN inbox[a] :
              i < j => HistoryPos(inbox[a][i].id) <= HistoryPos(inbox[a][j].id)

\* the part of C5 the code keeps: history and message counts grow together
C5_HistoryAndCountsAtomic ==
    /\ Len(message_history) = used.publish
    /\ SumOver([c \in DOMAIN channels |-> channels[c].message_count], DOMAIN channels)
          = used.publish

\* C3: Subscription.matches is true iff message.priority <= priority_min and
\* (type_filter is unset or message.type = type_filter): priority_min NORMAL
\* takes CRITICAL, HIGH, NORMAL and rejects LOW, BACKGROUND; type_filter ALERT
\* takes only ALERT; the default subscription takes every message.
C3_MatchesRule ==
    probe.state = "result" =>
        LET sub == probe.sub
            msg == probe.msg
        IN  /\ probe.result =
                  (/\ msg.priority <= sub.priority_min
                   /\ (sub.type_filter = None \/ msg.type = sub.type_filter))
            /\ (sub.priority_min = NORMAL /\ sub.type_filter = None =>
                    probe.result = (msg.priority \in {CRITICAL, HIGH, NORMAL}))
            /\ (sub.type_filter = "alert" /\ sub.priority_min = BACKGROUND =>
                    probe.result = (msg.type = "alert"))
            /\ (sub.priority_min = BACKGROUND /\ sub.type_filter = None => probe.result)

\* matches rejected a LOW message for a subscription with priority_min NORMAL
C3_Witness ==
    /\ probe.state = "result"
    /\ probe.sub.priority_min = NORMAL
    /\ probe.sub.type_filter = None
    /\ probe.msg.priority = LOW
    /\ ~probe.result

\* C6: an inbox never holds more than 100 messages, and holds exactly the
\* min(100, n) most recent of the n messages delivered to it, in delivery order.
C6_InboxKeepsLast100 ==
    \A a \in Agents :
        LET n == Len(dlog[a])
            k == Len(inbox[a])
        IN  /\ k <= 100
            /\ k = Min(n, 100)
            /\ \A i \in 1..k : inbox[a][i].id = dlog[a][n - k + i]

\* more than 100 messages were delivered to an inbox, which holds the last 100
C6_Witness ==
    \E a \in Agents :
        /\ Len(dlog[a]) > 101
        /\ Len(inbox[a]) = 100
        /\ inbox[a][1].id > 1
        /\ inbox[a][100].id = dlog[a][Len(dlog[a])]

\* C7: the history never holds more than 1000 messages, and is exactly the
\* min(total, 1000) most recently published messages in arrival order (the
\* k-th published message has id k).
C7_HistoryKeepsLast1000 ==
    LET k == Len(message_history)
    IN  /\ k <= 1000
        /\ k = Min(used.publish, 1000)
        /\ \A i \in 1..k : message_history[i].id = used.publish - k + i

\* more than 1000 messages were published; the oldest were evicted
C7_Witness ==
    /\ used.publish > 1000
    /\ Len(message_history) = 1000
    /\ message_history[1].id = used.publish - 999
    /\ message_history[1000].id = used.publish

\* C8: every publish that was called eventually returns, whatever its hooks do.
C8_PublishReturns ==
    \A p \in Tasks : (pub[p].pc \in {"loop", "await", "store"}) ~> (pub[p].pc = "done")

\* this step is the call of storage.store by task p and the return of publish
StoreStep(p) == pub[p].pc = "store" /\ pub'[p].pc = "done"

\* C9: a Store write failure is reported by store() as False without raising;
\* publish then still returns its delivery count, and the message counts, the
\* history and the inboxes stay as they were.
C9_StoreFailureNotFatal ==
    [][\A p \in Tasks :
          StoreStep(p) =>
              /\ pub'[p].outcome = "returned"
              /\ pub'[p].store_ret \in {"True", "False"}
              /\ pub'[p].result = pub[p].delivered
              /\ pub'[p].result = Len(MatchingSubs(pub[p].snap, pub[p].msg))
              /\ UNCHANGED <<channels, message_history, inbox>>
              /\ (pub'[p].store_ret = "False" => stored' = stored)]_vars

\* a publish returned 1 although the Store write failed; the message is in the
\* history and the inbox and not in the Store
C9_Witness ==
    \E p \in Tasks :
        /\ pub[p].pc = "done"
        /\ pub[p].store_ret = "False"
        /\ pub[p].result = 1
        /\ Row(pub[p].msg) \notin stored
        /\ HistoryPos(pub[p].msg.id) > 0
        /\ \E a \in Agents : \E i \in DOMAIN inbox[a] : inbox[a][i] = pub[p].msg

\* this step is a call of create_channel (a clock tick leaves last as it is)
CreateStep ==
    /\ last'.op = "create_channel"
    /\ used'.calls = used.calls + 1
    /\ now' = now

\* C10: create_channel(name, d) on a name that exists returns the existing
\* channel and changes nothing of it; on a new name it creates the channel with
\* description d and message_count 0 and leaves the other channels alone.
C10_CreateChannelIdempotent ==
    [][CreateStep =>
          LET name == last'.args[1]
              d == last'.args[2]
          IN  IF name \in DOMAIN channels
              THEN /\ channels' = channels
                   /\ last'.obj = channels[name]
              ELSE /\ DOMAIN channels' = DOMAIN channels \cup {name}
                   /\ \A n \in DOMAIN channels : channels'[n] = channels[n]
                   /\ channels'[name].description = d
                   /\ channels'[name].message_count = 0
                   /\ last'.obj = channels'[name]]_vars

\* create_channel was called on a channel that a publish had created earlier:
\* it returned that channel, with its description, creation time and count
C10_Witness ==
    /\ last.op = "create_channel"
    /\ last.args[1] = "#test"
    /\ last.obj.description = ""
    /\ last.obj.description # last.args[2]
    /\ last.obj.created_at < now
    /\ last.obj.message_count = 1
    /\ channels["#test"] = last.obj

\* this step is a call of the synchronous method op (a clock tick leaves last as it is)
CallStep(op) ==
    /\ last'.op = op
    /\ used'.calls = used.calls + 1
    /\ now' = now

\* the entries of subs that are not of agent a, in order
NotOf(subs, a) == LET Other(s) == s.agent_name # a IN SelectSeq(subs, Other)

\* C11: publish and subscribe never fail because the channel does not exist:
\* called with an unknown channel name, each creates that channel with an empty
\* description (message_count 0, then 1 by publish's own increment) and goes on
\* normally: subscribe appends and returns the subscription, publish appends the
\* message to the history.
C11_UnknownChannelAutoCreated ==
    [][/\ CallStep("subscribe") /\ last'.args[2] \notin DOMAIN channels =>
            LET c == last'.args[2]
            IN  /\ DOMAIN channels' = DOMAIN channels \cup {c}
                /\ \A d \in DOMAIN channels : channels'[d] = channels[d]
                /\ channels'[c] = Channel(c, "", now)
                /\ subscriptions'[c] = Append(subscriptions[c], last'.obj)
                /\ last'.obj.channel = c
                /\ last'.obj.agent_name = last'.args[1]
       /\ \A p \in Tasks :
            PublishCalled(p) /\ pub'[p].msg.channel \notin DOMAIN channels =>
                LET c == pub'[p].msg.channel
                IN  /\ DOMAIN channels' = DOMAIN channels \cup {c}
                    /\ \A d \in DOMAIN channels : channels'[d] = channels[d]
                    /\ channels'[c] = [Channel(c, "", now) EXCEPT !.message_count = 1]
                    /\ message_history'[Len(message_history')] = pub'[p].msg
                    /\ pub'[p].pc = "loop"]_vars

\* a publish on "#test", which nobody had created or subscribed to, created the
\* channel and returned 0
C11_Witness ==
    \E p \in Tasks :
        /\ pub[p].pc = "done"
        /\ pub[p].msg.channel = "#test"
        /\ pub[p].outcome = "returned"
        /\ pub[p].result = 0
        /\ subscriptions["#test"] = <<>>
        /\ channels["#test"].description = ""
        /\ channels["#test"].message_count = 1

\* C12: subscribe never deduplicates: every call adds exactly one entry to the
\* channel's list, also when an equal entry is there, and leaves the other
\* channels' lists alone; an agent with k matching entries in the list a publish
\* goes through gets k inbox copies of the message and adds k to the return value
\* (for a publish that was never suspended that list is the list at the call).
C12_SubscribeNeverDeduplicates ==
    /\ [][CallStep("subscribe") =>
            LET c == last'.args[2]
            IN  /\ Len(subscriptions'[c]) = Len(subscriptions[c]) + 1
                /\ subscriptions'[c] = Append(subscriptions[c], last'.obj)
                /\ \A d \in DOMAIN subscriptions \ {c} :
                      subscriptions'[d] = subscriptions[d]]_vars
    /\ [](\A p \in Tasks :
            pub[p].pc = "done" =>
                /\ \A a \in Agents :
                      /\ pub[p].copies[a] = MatchingOf(pub[p].snap, a, pub[p].msg)
                      /\ (~pub[p].suspended => pub[p].copies[a] = pub[p].expect[a])
                /\ pub[p].result = SumOver(pub[p].copies, Agents))

\* an agent subscribed twice with equal arguments got two copies of one message,
\* and the publish returned 2
C12_Witness ==
    \E p \in Tasks, a \in Agents :
        /\ pub[p].pc = "done"
        /\ Len(pub[p].snap) = 2
        /\ pub[p].snap[1] = pub[p].snap[2]
        /\ pub[p].snap[1].agent_name = a
        /\ pub[p].copies[a] = 2
        /\ pub[p].result = 2
        /\ Len(inbox[a]) = 2
        /\ inbox[a][1] = pub[p].msg
        /\ inbox[a][2] = pub[p].msg

\* C13: unsubscribe(a, c) removes exactly the subscriptions of a on c and returns
\* their number; the subscriptions on every other channel, the other agents'
\* subscriptions on c, the inboxes, the history and the channel map stay.
C13_UnsubscribeChannelExact ==
    [][CallStep("unsubscribe") /\ last'.args[2] # None =>
          LET a == last'.args[1]
              c == last'.args[2]
          IN  /\ subscriptions'[c] = NotOf(subscriptions[c], a)
              /\ last'.ret = Len(subscriptions[c]) - Len(subscriptions'[c])
              /\ \A d \in DOMAIN subscriptions \ {c} : subscriptions'[d] = subscriptions[d]
              /\ UNCHANGED <<inbox, message_history, channels>>]_vars

\* unsubscribe(a, "#alerts") removed a's one subscription there and returned 1;
\* a's subscription on "#test" is still there
C13_Witness ==
    /\ last.op = "unsubscribe"
    /\ last.args[2] = "#alerts"
    /\ last.ret = 1
    /\ Len(subscriptions["#test"]) = 1
    /\ subscriptions["#test"][1].agent_name = last.args[1]
    /\ subscriptions["#alerts"] = <<>>

\* the part of C14 the code keeps: unsubscribe(a) removes a's subscriptions on
\* every channel, returns how many they were, and leaves the other agents' ones
C14_RemovesAllOfAgent ==
    [][CallStep("unsubscribe") /\ last'.args[2] = None =>
          LET a == last'.args[1]
              removed == [ch \in DOMAIN subscriptions |->
                             Len(subscriptions[ch]) - Len(subscriptions'[ch])]
          IN  /\ \A ch \in DOMAIN subscriptions :
                    subscriptions'[ch] = NotOf(subscriptions[ch], a)
              /\ last'.ret = SumOver(removed, DOMAIN subscriptions)]_vars

\* C14: unsubscribe(a) removes every subscription of a on every channel, returns
\* their number and leaves the other agents' subscriptions; from then on, as long
\* as a has no subscription, nothing is appended to a's inbox.
C14_UnsubscribeAllStopsDelivery ==
    /\ C14_RemovesAllOfAgent
    /\ [][\A a \in Agents :
            Len(dlog'[a]) > Len(dlog[a]) =>
                \E ch \in DOMAIN subscriptions :
                    \E i \in DOMAIN subscriptions[ch] :
                        subscriptions[ch][i].agent_name = a]_vars

\* C17: clear_inbox(a) returns the number of messages that were in a's inbox,
\* leaves it empty and changes no other inbox, no subscription, not the history;
\* a later delivery to a matching subscription of a is appended to a's inbox.
C17_ClearInboxOnlyEmpties ==
    /\ [][CallStep("clear_inbox") =>
            LET a == last'.args[1]
            IN  /\ last'.ret = Len(inbox[a])
                /\ inbox'[a] = <<>>
                /\ \A b \in Agents \ {a} : inbox'[b] = inbox[b]
                /\ UNCHANGED <<subscriptions, message_history, channels>>]_vars
    /\ [][\A p \in Tasks :
            (/\ cur = p
             /\ pub[p].pc = "loop"
             /\ pub'[p] # pub[p]
             /\ pub[p].idx <= Len(IterList(p))
             /\ Matches(IterList(p)[pub[p].idx], pub[p].msg)) =>
                LET a == IterList(p)[pub[p].idx].agent_name
                IN  /\ Len(inbox'[a]) > 0
                    /\ inbox'[a][Len(inbox'[a])] = pub[p].msg]_vars

\* an agent cleared an inbox of one message, and the next publish was delivered
\* to it
C17_Witness ==
    \E a \in Agents :
        /\ last.op = "clear_inbox"
        /\ last.args[1] = a
        /\ last.ret = 1
        /\ Len(inbox[a]) = 1
        /\ inbox[a][1].id = 2
        /\ message_history[1].id = 1

\* the last Min(limit, Len(s)) entries of s
LastOf(s, limit) ==
    LET k == Min(limit, Len(s)) IN SubSeq(s, Len(s) - k + 1, Len(s))

\* the entries of the agent's inbox, all of them or those on channel c
InboxOn(a, c) ==
    LET On(m) == m.channel = c
        box == IF a \in DOMAIN inbox THEN inbox[a] ELSE <<>>
    IN  IF c = None THEN box ELSE SelectSeq(box, On)

\* the part of C15 the code keeps: the claim for every limit >= 1
C15_GetInboxPositiveLimit ==
    [][CallStep("get_inbox") /\ last'.args[2] >= 1 =>
          last'.list = LastOf(InboxOn(last'.args[1], last'.args[3]), last'.args[2])]_vars

\* C15: for every agent, limit >= 0 and optional channel, get_inbox returns
\* exactly the last min(limit, n) of the n entries of the agent's inbox on that
\* channel, oldest first; the empty sequence for an agent without inbox.
C15_GetInboxLastEntries ==
    [][CallStep("get_inbox") =>
          /\ last'.list = LastOf(InboxOn(last'.args[1], last'.args[3]), last'.args[2])
          /\ (last'.args[1] \notin DOMAIN inbox => last'.list = <<>>)]_vars

\* the entries of the history buffer on channel c (all if None) not before since
HistoryOn(c, since) ==
    LET On(m) == (c = None \/ m.channel = c) /\ (since = <<>> \/ m.timestamp >= since[1])
    IN  SelectSeq(message_history, On)

\* the part of C18 the code keeps: the claim for every limit >= 1
C18_GetHistoryPositiveLimit ==
    [][CallStep("get_history") /\ last'.args[2] >= 1 =>
          last'.list = LastOf(HistoryOn(last'.args[1], last'.args[3]), last'.args[2])]_vars

\* C18: for every optional channel, optional since and limit >= 0, get_history
\* returns exactly the last min(limit, n) of the n entries of the in-memory
\* history on that channel with timestamp >= since, oldest first, whatever the
\* Store holds.
C18_GetHistoryLastEntries ==
    [][CallStep("get_history") =>
          last'.list = LastOf(HistoryOn(last'.args[1], last'.args[3]), last'.args[2])]_vars

\* this step is a call of get_inbox or get_history
ReadStep == CallStep("get_inbox") \/ CallStep("get_history")

\* the value the call recorded in last' returns when made again in the new state
Reread ==
    IF last'.op = "get_inbox"
    THEN GetInbox(inbox', last'.args[1], last'.args[2], last'.args[3])
    ELSE GetHistory(message_history', last'.args[1], last'.args[2], last'.args[3])

\* C16: get_inbox and get_history are pure reads: a call leaves every inbox, the
\* history, the subscriptions and the channel map unchanged, so the same call
\* made again at once returns the same sequence.
C16_ReadsArePure ==
    [][ReadStep =>
          /\ UNCHANGED <<inbox, message_history, subscriptions, channels>>
          /\ Reread = last'.list]_vars

\* get_inbox returned the two messages of an inbox, which still holds them
C16_Witness ==
    /\ last.op = "get_inbox"
    /\ Len(last.list) = 2
    /\ last.args[1] \in Agents
    /\ inbox[last.args[1]] = last.list
    /\ Len(message_history) = 2

\* the agents of the Registry whose status is online
OnlineAgents == {n \in DOMAIN agents : agents[n].status = "online"}

\* C19: in every reachable state the agents_online of stats() is the number of
\* agents of the Registry whose status is online; offline and busy agents are
\* not counted.
C19_AgentsOnlineCountsOnline ==
    Stats.agents_online = Cardinality(OnlineAgents)

\* what the code reports instead: the number of agents the Registry knows,
\* whatever their status
C19_AgentsOnlineCountsKnown ==
    Stats.agents_online = Cardinality(DOMAIN agents)

\* the subscription entries of all channels: channel and position in its list
SubscriptionEntries ==
    UNION {{<<c, i>> : i \in DOMAIN subscriptions[c]} : c \in DOMAIN subscriptions}

\* C20: stats().messages_total is the number of publish calls made since the bus
\* was constructed and never decreases, also when the history evicts or an inbox
\* is cleared; history_size is min(that number, 1000); channels is the number of
\* channels and subscriptions the number of subscription entries of all channels.
C20_StatsCounts ==
    /\ [](/\ Stats.messages_total = used.publish
          /\ Stats.history_size = Min(used.publish, 1000)
          /\ Stats.channels = Cardinality(DOMAIN channels)
          /\ Stats.subscriptions = Cardinality(SubscriptionEntries))
    /\ [][Stats.messages_total' >= Stats.messages_total]_vars

\* after more than 1000 publishes, some on a channel created by publish, and an
\* inbox of 100 messages cleared, messages_total is still the number of publishes
C20_Witness ==
    /\ used.publish > 1000
    /\ Stats.messages_total = used.publish
    /\ Stats.history_size = 1000
    /\ Stats.channels = 7
    /\ Stats.subscriptions = 2
    /\ last.op = "clear_inbox"
    /\ last.ret = 100

\* the seconds of the timeout, in ticks
TimeoutTicks == heartbeat_timeout * TicksPerSecond

\* the agent has this capability
HasCapability(n, tag) ==
    \E i \in DOMAIN agents[n].capabilities : agents[n].capabilities[i] = tag

\* C21: heartbeat(name) always returns true: for a never-registered name it
\* creates an AgentInfo with status online; for a known name in any status it
\* sets status to online and last_heartbeat to the current time and leaves
\* capabilities, channels, metadata and registered_at (and every other agent).
C21_HeartbeatAlwaysOnline ==
    [][CallStep("heartbeat") =>
          LET n == last'.args[1]
          IN  /\ last'.obj = [ok |-> TRUE]
              /\ DOMAIN agents' = DOMAIN agents \cup {n}
              /\ \A m \in DOMAIN agents \ {n} : agents'[m] = agents[m]
              /\ IF n \in DOMAIN agents
                 THEN agents'[n] = [agents[n] EXCEPT !.status = "online",
                                                     !.last_heartbeat = now]
                 ELSE agents'[n] = [name |-> n, capabilities |-> <<>>, channels |-> <<>>,
                                    status |-> "online", registered_at |-> now,
                                    last_heartbeat |-> now, metadata |-> {}]]_vars

\* a heartbeat of an agent registered earlier with a capability: it is online,
\* its heartbeat is of now, its registration instant and capability are kept
C21_Witness ==
    \E n \in DOMAIN agents :
        /\ last.op = "heartbeat"
        /\ last.args[1] = n
        /\ agents[n].status = "online"
        /\ agents[n].last_heartbeat = now
        /\ agents[n].registered_at < now
        /\ agents[n].capabilities = <<"chat">>

\* C22: check_timeouts sets offline, and returns the names of, exactly the
\* online agents with now - last_heartbeat > heartbeat_timeout (strictly); the
\* online agents within the timeout, the busy and the offline agents are neither
\* changed nor returned.
C22_SweepDemotesExactlyLapsed ==
    [][CallStep("check_timeouts") =>
          LET due == {n \in DOMAIN agents :
                         /\ agents[n].status = "online"
                         /\ now - agents[n].last_heartbeat > TimeoutTicks}
          IN  /\ last'.obj = [timed_out |-> due]
              /\ DOMAIN agents' = DOMAIN agents
              /\ \A n \in DOMAIN agents :
                    agents'[n] = IF n \in due THEN [agents[n] EXCEPT !.status = "offline"]
                                 ELSE agents[n]]_vars

\* a sweep returned agent-a, whose heartbeat was one tick beyond the timeout,
\* and left agent-b, busy with a heartbeat as old, as it was
C22_Witness ==
    /\ last.op = "check_timeouts"
    /\ last.obj.timed_out = {"agent-a"}
    /\ agents["agent-a"].status = "offline"
    /\ now - agents["agent-a"].last_heartbeat = TimeoutTicks + 1
    /\ "agent-b" \in DOMAIN agents
    /\ agents["agent-b"].status = "busy"
    /\ now - agents["agent-b"].last_heartbeat > TimeoutTicks

\* the capabilities asked for
Tags == {"chat", "trading"}

\* C23: elapsed time alone never demotes an agent: a status goes from online to
\* offline only in a check_timeouts or unregister step of the Registry (or when
\* the holder of the record assigns it); while time passes the agents, and what
\* get, list_agents and find_by_capability report, stay as they are.
C23_OnlyExplicitDemotion ==
    /\ [][\A n \in DOMAIN agents :
            (n \in DOMAIN agents' /\ agents[n].status = "online"
                /\ agents'[n].status = "offline") =>
                \/ CallStep("check_timeouts")
                \/ CallStep("unregister")
                \/ CallStep("set_status")]_vars
    /\ [][now' # now =>
            /\ agents' = agents
            /\ \A n \in Agents : Get(agents', n) = Get(agents, n)
            /\ ListAgents(agents', <<"online">>) = ListAgents(agents, <<"online">>)
            /\ \A tag \in Tags :
                  FindByCapability(agents', tag) = FindByCapability(agents, tag)]_vars

\* an agent whose heartbeat is older than the timeout is still online, and
\* listed by list_agents(online) and find_by_capability
C23_Witness ==
    \E n \in DOMAIN agents :
        /\ now - agents[n].last_heartbeat > TimeoutTicks
        /\ Get(agents, n)[1].status = "online"
        /\ n \in ListAgents(agents, <<"online">>)
        /\ n \in FindByCapability(agents, "chat")

\* C24: unregister(name) returns false for an unknown name and leaves the
\* registry as it is; for a known name it sets status to offline, returns true
\* and keeps the record; the names the registry knows never become fewer.
C24_UnregisterKeepsRecord ==
    /\ [][CallStep("unregister") =>
            LET n == last'.args[1]
            IN  IF n \notin DOMAIN agents
                THEN /\ last'.obj = [ok |-> FALSE]
                     /\ agents' = agents
                ELSE /\ last'.obj = [ok |-> TRUE]
                     /\ DOMAIN agents' = DOMAIN agents
                     /\ agents' = [agents EXCEPT ![n].status = "offline"]]_vars
    /\ [][\A n \in Agents : Get(agents, n) # <<>> => Get(agents', n) # <<>>]_vars

\* unregister of a known agent returned true; its record is there, offline,
\* with its capability
C24_Witness ==
    \E n \in DOMAIN agents :
        /\ last.op = "unregister"
        /\ last.args[1] = n
        /\ last.obj.ok
        /\ agents[n].status = "offline"
        /\ agents[n].capabilities = <<"chat">>

\* C25: register on a known name updates the record in place: status becomes
\* online, capabilities, channels and metadata take the values supplied (an
\* argument left out keeps the old value), registered_at stays, and no other
\* record is created or changed.
C25_ReRegisterInPlace ==
    [][CallStep("register") /\ last'.args[1] \in DOMAIN agents =>
          LET n == last'.args[1]
              old == agents[n]
              new == agents'[n]
          IN  /\ DOMAIN agents' = DOMAIN agents
              /\ \A m \in DOMAIN agents \ {n} : agents'[m] = agents[m]
              /\ new.name = n
              /\ new.status = "online"
              /\ new.registered_at = old.registered_at
              /\ new.capabilities =
                    IF last'.args[2] = <<>> THEN old.capabilities ELSE last'.args[2][1]
              /\ new.channels =
                    IF last'.args[3] = <<>> THEN old.channels ELSE last'.args[3][1]
              /\ new.metadata =
                    IF last'.args[4] = <<>> THEN old.metadata ELSE last'.args[4][1]
              /\ last'.obj = new]_vars

\* an agent first registered without capabilities registered again later with
\* one: same registration instant, online, the new capability
C25_Witness ==
    \E n \in DOMAIN agents :
        /\ last.op = "register"
        /\ last.args[1] = n
        /\ last.args[2] = << <<"chat">> >>
        /\ agents[n].registered_at < now
        /\ agents[n].last_heartbeat = now
        /\ agents[n].status = "online"
        /\ agents[n].capabilities = <<"chat">>
        /\ agents[n].metadata = {"v1"}

\* C26: find_by_capability(tag) returns exactly the agents that are online and
\* have the capability tag: an offline or busy agent with the capability is not
\* returned, and is returned again after a heartbeat.
C26_FindByCapabilityOnlineOnly ==
    /\ [](\A tag \in Tags :
            FindByCapability(agents, tag) =
                {n \in DOMAIN agents : agents[n].status = "online" /\ HasCapability(n, tag)})
    /\ [][CallStep("heartbeat") =>
            \A tag \in Tags :
                (last'.args[1] \in DOMAIN agents /\ HasCapability(last'.args[1], tag)) =>
                    last'.args[1] \in FindByCapability(agents', tag)]_vars

\* a busy agent with the capability "chat" is not returned for "chat"
C26_Witness ==
    \E n \in DOMAIN agents :
        /\ agents[n].status = "busy"
        /\ agents[n].capabilities = <<"chat">>
        /\ FindByCapability(agents, "chat") = {}
        /\ FindByCapability(agents, "trading") = {}

AgeTicks(r) == now - FromIso(r.timestamp)

\* C28: cleanup_expired deletes every stored message with ttl > 0 whose age is
\* greater than ttl seconds, the age compared at sub-second resolution, and
\* returns the number of rows deleted.
C28_CleanupSubSecond ==
    [][CallStep("cleanup_expired") =>
          LET due == {r \in stored : r.ttl > 0 /\ AgeTicks(r) > r.ttl * TicksPerSecond}
          IN  /\ stored' = stored \ due
              /\ last'.ret = Cardinality(due)]_vars

\* what cleanup_expired does: it deletes only rows with ttl > 0 whose age is at
\* least ttl + 1 seconds, every such row whose age is more than ttl + 1 seconds,
\* and returns the number of rows deleted
C28_CleanupWholeSeconds ==
    [][CallStep("cleanup_expired") =>
          /\ stored' \subseteq stored
          /\ \A r \in stored \ stored' :
                r.ttl > 0 /\ AgeTicks(r) >= (r.ttl + 1) * TicksPerSecond
          /\ \A r \in stored :
                (r.ttl > 0 /\ AgeTicks(r) > (r.ttl + 1) * TicksPerSecond) => r \notin stored'
          /\ last'.ret = Cardinality(stored \ stored')]_vars

\* a cleanup returned 0 and left a row of ttl 1 whose age is a second and a half
C28_Witness ==
    /\ last.op = "cleanup_expired"
    /\ last.ret = 0
    /\ \E r \in stored : r.ttl = 1 /\ AgeTicks(r) = TicksPerSecond + 1

\* C29: cleanup_expired never deletes a message with ttl = 0, whatever its age,
\* nor a message with ttl > 0 whose age is at most ttl seconds; no other
\* operation of the Store deletes rows.
C29_CleanupKeepsUnexpired ==
    [][/\ CallStep("cleanup_expired") =>
            \A r \in stored :
                (r.ttl = 0 \/ AgeTicks(r) <= r.ttl * TicksPerSecond) => r \in stored'
       /\ ~CallStep("cleanup_expired") => stored \subseteq stored']_vars

\* a cleanup deleted a row and kept a row of ttl 0 older than a second and a
\* row of ttl 1 stored just now
C29_Witness ==
    /\ last.op = "cleanup_expired"
    /\ last.ret > 0
    /\ \E r \in stored : r.ttl = 0 /\ AgeTicks(r) > TicksPerSecond
    /\ \E r \in stored : r.ttl = 1 /\ AgeTicks(r) = 0

\* the list L is the min(limit, n) newest of the n rows matching, oldest first
NewestOf(L, matching, limit) ==
    /\ Len(L) = Min(limit, Cardinality(matching))
    /\ \A i \in DOMAIN L : Row(L[i]) \in matching
    /\ \A i, j \in DOMAIN L :
          i < j => L[i].id # L[j].id /\ L[i].timestamp <= L[j].timestamp
    /\ \A r \in matching :
          (\A i \in DOMAIN L : Row(L[i]) # r) =>
              \A i \in DOMAIN L : FromIso(r.timestamp) <= L[i].timestamp

Subscribed(a, c) ==
    \E i \in DOMAIN subscriptions[c] : subscriptions[c][i].agent_name = a

\* C35: once unsubscribe(a, c) has returned, no message published on c is
\* appended to a's inbox and no hook of a is invoked for c until a subscribes to
\* c again, also by a publish on c that was suspended when unsubscribe ran:
\* every delivery step of a publish delivers to an agent subscribed to the
\* channel at that moment.
C35_NoDeliveryAfterUnsubscribe ==
    [][\A p \in Tasks :
          (cur = p /\ pub[p].pc = "loop") =>
              /\ \A a \in Agents :
                    Len(dlog'[a]) > Len(dlog[a]) => Subscribed(a, pub[p].msg.channel)
              /\ Len(pub'[p].hooks) > Len(pub[p].hooks) =>
                    Subscribed(pub'[p].hooks[Len(pub'[p].hooks)][1], pub[p].msg.channel)]_vars

\* the subscriptions on the channel of the publish p, matching its message, that
\* existed when it was called
ExpectedAtCall(p) == SumOver(pub[p].expect, Agents)

\* C36: a publish delivers its message only to subscriptions that existed when
\* publish was called, and its return value counts only those: no agent gets
\* more copies than it had matching subscriptions at the call.
C36_OnlySubscriptionsAtCall ==
    \A p \in Tasks :
        /\ \A a \in Agents : pub[p].copies[a] <= pub[p].expect[a]
        /\ (pub[p].pc = "done" /\ pub[p].outcome = "returned") =>
              pub[p].result <= ExpectedAtCall(p)

\* C38: channels are never removed and their counters never decrease; the six
\* default channels exist; every channel name with a subscription or a message
\* in the history is in the channel map.
C38_ChannelsOnlyGrow ==
    /\ [](/\ \A i \in DOMAIN DefaultChannels : DefaultChannels[i] \in DOMAIN channels
          /\ \A ch \in DOMAIN subscriptions :
                subscriptions[ch] # <<>> => ch \in DOMAIN channels
          /\ \A i \in DOMAIN message_history :
                message_history[i].channel \in DOMAIN channels)
    /\ [][\A n \in DOMAIN channels :
            /\ n \in DOMAIN channels'
            /\ channels'[n].message_count >= channels[n].message_count
            /\ channels'[n].name = n]_vars

\* after two publishes on #alerts and an unsubscribe that left it without
\* subscription, the channel is there with a count of 2, and so is #test,
\* created by a subscribe
C38_Witness ==
    /\ last.op = "unsubscribe"
    /\ subscriptions["#alerts"] = <<>>
    /\ channels["#alerts"].message_count = 2
    /\ "#test" \in DOMAIN channels
    /\ subscriptions["#test"] # <<>>
    /\ Len(message_history) = 2

\* a sweep returns only agents that were online, and sets them offline; an
\* agent that is not online becomes online only by heartbeat or register
OncePerOnlinePeriod ==
    /\ CallStep("check_timeouts") =>
          \A n \in last'.obj.timed_out :
              agents[n].status = "online" /\ agents'[n].status = "offline"
    /\ \A n \in DOMAIN agents :
          (agents[n].status # "online" /\ agents'[n].status = "online") =>
              CallStep("heartbeat") \/ CallStep("register")

\* a check_timeouts that follows a check_timeouts with no call of the registry
\* in between
SecondSweep == CallStep("check_timeouts") /\ last.op = "check_timeouts"

\* C37 as stated: an agent is reported by check_timeouts at most once per
\* online period; a second check_timeouts with no intervening registry
\* operation returns the empty list and changes nothing.
C37_SecondSweepEmpty ==
    [][/\ OncePerOnlinePeriod
       /\ SecondSweep => last'.obj.timed_out = {} /\ agents' = agents]_vars

\* C37, amended: an agent is reported by check_timeouts at most once per
\* online period; a second check_timeouts with no intervening registry
\* operation returns none of the names the first returned: it returns only
\* agents that were still within the timeout at the first, and changes nothing
\* when it returns the empty list.
C37_OncePerOnlinePeriod ==
    [][/\ OncePerOnlinePeriod
       /\ SecondSweep =>
            /\ last'.obj.timed_out \cap last.obj.timed_out = {}
            /\ \A n \in last'.obj.timed_out :
                  last.args[1] - agents[n].last_heartbeat <= TimeoutTicks
            /\ last'.obj.timed_out = {} => agents' = agents]_vars

\* a sweep returned nothing although an agent's heartbeat is older than the
\* timeout: a sweep before has set that agent offline
C37_Witness ==
    /\ last.op = "check_timeouts"
    /\ last.obj.timed_out = {}
    /\ used.calls = 4
    /\ DOMAIN agents = {"agent-a"}
    /\ agents["agent-a"].status = "offline"
    /\ agents["agent-a"].last_heartbeat = 0
    /\ now = TimeoutTicks + 1

\* C33: for every message m, from_dict(m.to_dict()) equals m field for field
\* (reply_to unset and ttl = 0 included); to_dict gives the type as its
\* lowercase string and the priority as its integer rank.
C33_DictRoundTrip ==
    [][/\ CallStep("to_dict") =>
            /\ last'.obj.type = last'.args[1].type
            /\ last'.obj.type \in {"alert", "data", "command", "query", "response", "event"}
            /\ last'.obj.priority = last'.args[1].priority
            /\ last'.obj.priority \in 0..4
       /\ (CallStep("from_dict") /\ last.op = "to_dict" /\ last'.args[1] = last.obj) =>
            /\ ~last'.obj.raised
            /\ last'.list = <<last.args[1]>>]_vars

\* from_dict gave back a message with reply_to unset, ttl 0 and an instant with
\* hours, minutes, seconds and a fraction
C33_Witness ==
    /\ last.op = "from_dict"
    /\ Len(last.list) = 1
    /\ last.list[1].id = 7
    /\ last.list[1].reply_to = None
    /\ last.list[1].ttl = 0
    /\ last.list[1].timestamp = TicksPerSecond * 3725 + 1
    /\ last.list[1].type = "query"
    /\ last.list[1].priority = CRITICAL

\* a publish request was handled and no publish was called for it
RejectStep == used'.publish = used.publish + 1 /\ \A p \in Tasks : ~PublishCalled(p)

\* C34: parsing a message whose type is not one of the six message types or
\* whose priority is not one of the ranks 0..4 fails, and never substitutes a
\* default; a publish request rejected this way changes no bus state, and a
\* request that is published asked for the type and priority of its message.
C34_UnknownEnumRejected ==
    [][/\ CallStep("from_dict") =>
            LET d == last'.args[1]
            IN  IF d.type \notin MessageType \/ d.priority \notin Priority
                THEN last'.obj.raised /\ last'.list = <<>>
                ELSE /\ ~last'.obj.raised
                     /\ last'.list[1].type = d.type
                     /\ last'.list[1].priority = d.priority
       /\ RejectStep =>
            /\ last'.op = "publish_message"
            /\ (last'.args[1].type \notin MessageType
                   \/ last'.args[1].priority \notin Priority)
            /\ last'.obj.raised
            /\ UNCHANGED <<channels, subscriptions, message_history, inbox, stored, pub>>
       /\ \A p \in Tasks :
            PublishCalled(p) =>
                \E type \in MessageType, priority \in Priority :
                    /\ pub'[p].msg.payload = RequestNote(type, priority)
                    /\ pub'[p].msg.type = type
                    /\ pub'[p].msg.priority = priority]_vars

\* a request with an unknown type on #alerts, which has a subscriber, was
\* rejected: no count, no history, no inbox entry, no row
C34_Witness ==
    /\ last.op = "publish_message"
    /\ last.obj.raised
    /\ last.args[1].type = "bogus"
    /\ last.args[1].channel = "#alerts"
    /\ subscriptions["#alerts"] # <<>>
    /\ channels["#alerts"].message_count = 0
    /\ message_history = <<>>
    /\ inbox["agent-a"] = <<>>
    /\ stored = {}

\* C31: each sweep calls check_timeouts once; a sweep that times out at least
\* one agent publishes one event on #system at HIGH priority that names exactly
\* the agents it demoted; a sweep that times out nobody publishes nothing.
C31_SweepAnnouncesDemoted ==
    [][CallStep("check_timeouts") =>
          LET due == {n \in DOMAIN agents :
                         /\ agents[n].status = "online"
                         /\ now - agents[n].last_heartbeat > TimeoutTicks}
          IN  /\ last'.obj.timed_out = due
              /\ \A n \in DOMAIN agents :
                    (agents[n].status = "online" /\ agents'[n].status = "offline") <=> n \in due
              /\ IF due = {}
                 THEN UNCHANGED <<channels, message_history, inbox, pub, stored>>
                 ELSE \E p \in Tasks :
                        /\ PublishCalled(p)
                        /\ \A q \in Tasks \ {p} : pub'[q] = pub[q]
                        /\ pub'[p].msg.channel = "#system"
                        /\ pub'[p].msg.priority = HIGH
                        /\ pub'[p].msg.type = "event"
                        /\ pub'[p].msg.sender = "synapse"
                        /\ pub'[p].msg.payload = "agents_timed_out:" \o Joined(due)
                        /\ message_history' = Append(message_history, pub'[p].msg)
                        /\ channels'["#system"].message_count =
                              channels["#system"].message_count + 1]_vars

\* the sweep set agent-a offline and its event, naming agent-a, is in the
\* history, in the inbox of the subscriber of #system and in the Store
C31_Witness ==
    \E p \in Tasks :
        /\ pub[p].pc = "done"
        /\ pub[p].msg.sender = "synapse"
        /\ pub[p].msg.payload = "agents_timed_out: agent-a"
        /\ agents["agent-a"].status = "offline"
        /\ message_history = <<pub[p].msg>>
        /\ inbox["agent-a"] = <<pub[p].msg>>
        /\ Row(pub[p].msg) \in stored

\* the publishes of the sweeper that have not returned
SweepsInProgress ==
    {p \in Tasks : pub[p].msg.sender = "synapse" /\ pub[p].pc \notin {"idle", "done"}}

\* C32: the sweeper never runs concurrently with itself: at most one sweep is
\* in progress, the next sweep starts only after the previous one has finished,
\* and the sweeps that fell due meanwhile are skipped: the sleep before the next
\* sweep starts when the sweep ends.
C32_OneSweepAtATime ==
    /\ [](/\ Cardinality(SweepsInProgress) <= 1
          /\ SweepsInProgress # {} => sweeper.pc = "publish")
    /\ [][/\ CallStep("check_timeouts") =>
                /\ sweeper.pc = "sleep"
                /\ now >= sweeper.due
                /\ SweepsInProgress = {}
          /\ (sweeper' # sweeper /\ sweeper'.pc = "sleep") =>
                sweeper'.due = now + sweep_interval * TicksPerSecond]_vars

\* the publish of a sweep has returned a sleep interval or more after the sweep
\* started, and the sweeper has not gone back to sleep yet
C32_Witness ==
    /\ sweeper.pc = "publish"
    /\ pub[sweeper.task].pc = "done"
    /\ pub[sweeper.task].msg.sender = "synapse"
    /\ now >= sweeper.started + sweep_interval * TicksPerSecond

\* how many times c is in the list chans
Occurrences(chans, c) == Cardinality({i \in DOMAIN chans : chans[i] = c})

\* C39: through the register endpoint each registration adds one subscription
\* per channel of the request and removes none, also for an agent subscribed
\* already (by an earlier registration or at startup): an agent with k
\* subscriptions on c gets k inbox copies of a message published on c; an
\* unregister removes them all.
C39_RegistrationsAccumulate ==
    /\ [](\A p \in Tasks :
            pub[p].pc = "done" =>
                \A a \in Agents : pub[p].copies[a] = pub[p].expect[a])
    /\ [][/\ CallStep("register_agent") =>
                \A c \in DOMAIN subscriptions :
                    LET old == subscriptions[c]
                        k == Occurrences(last'.args[3], c)
                    IN  /\ Len(subscriptions'[c]) = Len(old) + k
                        /\ SubSeq(subscriptions'[c], 1, Len(old)) = old
                        /\ \A i \in (Len(old) + 1)..(Len(old) + k) :
                              subscriptions'[c][i] =
                                  Subscription(last'.args[1], c, "none", BACKGROUND, None)
          /\ (CallStep("unregister_agent") /\ last'.obj.ok) =>
                \A c \in DOMAIN subscriptions :
                    subscriptions'[c] = NotOf(subscriptions[c], last'.args[1])]_vars

\* agent-a, subscribed to #alerts at startup, registered naming #alerts: it has
\* two subscriptions on #alerts and got two copies of the message published
C39_Witness ==
    \E p \in Tasks :
        /\ last.op = "register_agent"
        /\ last.args[1] = "agent-a"
        /\ pub[p].pc = "done"
        /\ pub[p].msg.channel = "#alerts"
        /\ pub[p].copies["agent-a"] = 2
        /\ Len(subscriptions["#alerts"]) = 2
        /\ inbox["agent-a"] = <<pub[p].msg, pub[p].msg>>

=============================================================================
